---------------------------- MODULE Spec2Model ----------------------------
(***************************************************************************)
(* GenAI Content Monitor: the classifier, the summarizer and its           *)
(* extractive fallback (ai_processor.py), the seen-article ledger          *)
(* (storage.py), the article table (database.py), the monitoring run       *)
(* (main.py) and the scheduler that drives it (scheduler.py,               *)
(* run_scheduler.py).                                                      *)
(*                                                                         *)
(* Text is a sequence of one-character strings, so that substring tests,   *)
(* splitting, slicing and length are computed the way Python computes      *)
(* them.                                                                   *)
(***************************************************************************)
EXTENDS Integers, Sequences, FiniteSets, TLC

-----------------------------------------------------------------------------
(* Characters and strings                                                  *)

UpperLetters ==
    <<"A","B","C","D","E","F","G","H","I","J","K","L","M",
      "N","O","P","Q","R","S","T","U","V","W","X","Y","Z">>

LowerLetters ==
    <<"a","b","c","d","e","f","g","h","i","j","k","l","m",
      "n","o","p","q","r","s","t","u","v","w","x","y","z">>

Digits == {"0","1","2","3","4","5","6","7","8","9"}

Range(f) == {f[i] : i \in DOMAIN f}

\* str.lower() on one character
lower_char(c) ==
    IF \E i \in DOMAIN UpperLetters : UpperLetters[i] = c
    THEN LowerLetters[CHOOSE i \in DOMAIN UpperLetters : UpperLetters[i] = c]
    ELSE c

\* str.lower()
str_lower(s) == [i \in 1..Len(s) |-> lower_char(s[i])]

\* str.isspace() on one character (the only whitespace of the modelled texts)
is_space(c) == c = " "

\* \w of the re module
is_word_char(c) == c \in Range(UpperLetters) \cup Range(LowerLetters) \cup Digits \cup {"_"}

\* s[i:i+len(lit)] == lit, with i counted from 1
match_at(s, i, lit) ==
    /\ i >= 1
    /\ i + Len(lit) - 1 <= Len(s)
    /\ \A j \in 1..Len(lit) : s[i + j - 1] = lit[j]

\* sub in s
Contains(s, sub) == \E i \in 1..(Len(s) - Len(sub) + 1) : match_at(s, i, sub)

\* \b between s[i-1] and s[i] (i in 1..Len(s)+1)
word_boundary(s, i) ==
    LET before == i > 1 /\ i - 1 <= Len(s) /\ is_word_char(s[i - 1])
        after  == i >= 1 /\ i <= Len(s) /\ is_word_char(s[i])
    IN  before # after

\* len(s.split()): the number of maximal runs of non-whitespace characters
split_word_count(s) ==
    Cardinality({i \in 1..Len(s) : ~is_space(s[i]) /\ (i = 1 \/ is_space(s[i - 1]))})

RECURSIVE Join(_, _)
\* sep.join(parts)
Join(parts, sep) ==
    IF Len(parts) = 0 THEN <<>>
    ELSE IF Len(parts) = 1 THEN parts[1]
    ELSE parts[1] \o sep \o Join(Tail(parts), sep)

\* s[:n] for n >= 0
Prefix(s, n) == SubSeq(s, 1, IF n < Len(s) THEN n ELSE Len(s))

\* s.endswith(suffix)
EndsWith(s, suffix) ==
    /\ Len(suffix) <= Len(s)
    /\ SubSeq(s, Len(s) - Len(suffix) + 1, Len(s)) = suffix

-----------------------------------------------------------------------------
(* Configuration (config.py)                                               *)

\* Config._parse_keywords: the default keyword list
DEFAULT_GENAI_KEYWORDS ==
    << <<"g", "e", "n", "e", "r", "a", "t", "i", "v", "e", " ", "a", "i">>,
       <<"g", "e", "n", "a", "i">>,
       <<"g", "p", "t">>,
       <<"l", "a", "r", "g", "e", " ", "l", "a", "n", "g", "u", "a", "g", "e", " ", "m", "o", "d", "e", "l">>,
       <<"l", "l", "m">>,
       <<"c", "h", "a", "t", "g", "p", "t">>,
       <<"c", "l", "a", "u", "d", "e">>,
       <<"a", "r", "t", "i", "f", "i", "c", "i", "a", "l", " ", "i", "n", "t", "e", "l", "l", "i", "g", "e", "n", "c", "e">>,
       <<"m", "a", "c", "h", "i", "n", "e", " ", "l", "e", "a", "r", "n", "i", "n", "g">>,
       <<"n", "e", "u", "r", "a", "l", " ", "n", "e", "t", "w", "o", "r", "k">>,
       <<"t", "r", "a", "n", "s", "f", "o", "r", "m", "e", "r">>,
       <<"d", "i", "f", "f", "u", "s", "i", "o", "n">>,
       <<"s", "t", "a", "b", "l", "e", " ", "d", "i", "f", "f", "u", "s", "i", "o", "n">>,
       <<"m", "i", "d", "j", "o", "u", "r", "n", "e", "y">>,
       <<"d", "a", "l", "l", "-", "e">>,
       <<"t", "e", "x", "t", " ", "g", "e", "n", "e", "r", "a", "t", "i", "o", "n">>,
       <<"i", "m", "a", "g", "e", " ", "g", "e", "n", "e", "r", "a", "t", "i", "o", "n">>,
       <<"n", "a", "t", "u", "r", "a", "l", " ", "l", "a", "n", "g", "u", "a", "g", "e", " ", "p", "r", "o", "c", "e", "s", "s", "i", "n", "g">>,
       <<"n", "l", "p">>,
       <<"d", "e", "e", "p", " ", "l", "e", "a", "r", "n", "i", "n", "g">> >>

-----------------------------------------------------------------------------
(* Classifier (ai_processor.py, AIProcessor.is_genai_related)              *)

\* alternatives of \b(gpt-?\d+|chatgpt|claude|dall-?e|midjourney)\b other than gpt-?\d+
pattern1_literals ==
    << <<"c", "h", "a", "t", "g", "p", "t">>,
       <<"c", "l", "a", "u", "d", "e">>,
       <<"d", "a", "l", "l", "e">>,
       <<"d", "a", "l", "l", "-", "e">>,
       <<"m", "i", "d", "j", "o", "u", "r", "n", "e", "y">> >>

\* \b(large language model|llm)s?\b
pattern2_literals ==
    << <<"l", "a", "r", "g", "e", " ", "l", "a", "n", "g", "u", "a", "g", "e", " ", "m", "o", "d", "e", "l">>,
       <<"l", "l", "m">> >>

\* \b(neural network|transformer|diffusion)\b
pattern3_literals ==
    << <<"n", "e", "u", "r", "a", "l", " ", "n", "e", "t", "w", "o", "r", "k">>,
       <<"t", "r", "a", "n", "s", "f", "o", "r", "m", "e", "r">>,
       <<"d", "i", "f", "f", "u", "s", "i", "o", "n">> >>

\* \b(text generation|image generation|content generation)\b
pattern4_literals ==
    << <<"t", "e", "x", "t", " ", "g", "e", "n", "e", "r", "a", "t", "i", "o", "n">>,
       <<"i", "m", "a", "g", "e", " ", "g", "e", "n", "e", "r", "a", "t", "i", "o", "n">>,
       <<"c", "o", "n", "t", "e", "n", "t", " ", "g", "e", "n", "e", "r", "a", "t", "i", "o", "n">> >>

\* \b(artificial intelligence|machine learning)\b
pattern5_literals ==
    << <<"a", "r", "t", "i", "f", "i", "c", "i", "a", "l", " ", "i", "n", "t", "e", "l", "l", "i", "g", "e", "n", "c", "e">>,
       <<"m", "a", "c", "h", "i", "n", "e", " ", "l", "e", "a", "r", "n", "i", "n", "g">> >>

\* \b(natural language processing|nlp)\b
pattern6_literals ==
    << <<"n", "a", "t", "u", "r", "a", "l", " ", "l", "a", "n", "g", "u", "a", "g", "e", " ", "p", "r", "o", "c", "e", "s", "s", "i", "n", "g">>,
       <<"n", "l", "p">> >>

lit_gpt == <<"g", "p", "t">>
lit_generative == <<"g", "e", "n", "e", "r", "a", "t", "i", "v", "e">>
lit_ai == <<"a", "i">>
lit_genai == <<"g", "e", "n", "a", "i">>

context_indicators ==
    << <<"a", "r", "t", "i", "f", "i", "c", "i", "a", "l", " ", "i", "n", "t", "e", "l", "l", "i", "g", "e", "n", "c", "e">>,
       <<"m", "a", "c", "h", "i", "n", "e", " ", "l", "e", "a", "r", "n", "i", "n", "g">>,
       <<"d", "e", "e", "p", " ", "l", "e", "a", "r", "n", "i", "n", "g">>,
       <<"n", "e", "u", "r", "a", "l">>,
       <<"a", "l", "g", "o", "r", "i", "t", "h", "m">>,
       <<"m", "o", "d", "e", "l", " ", "t", "r", "a", "i", "n", "i", "n", "g">>,
       <<"l", "a", "n", "g", "u", "a", "g", "e", " ", "m", "o", "d", "e", "l">>,
       <<"c", "o", "m", "p", "u", "t", "e", "r", " ", "v", "i", "s", "i", "o", "n">>,
       <<"n", "a", "t", "u", "r", "a", "l", " ", "l", "a", "n", "g", "u", "a", "g", "e">> >>

\* keyword_density > 0.001 is matches * 1000 > words
DENSITY_PER_MILLE_DENOMINATOR == 1000

\* re.search(r'\b(lit1|lit2|...)\b', s) finds a match
search_literals(s, lits) ==
    \E i \in 1..Len(s) : \E k \in DOMAIN lits :
        /\ match_at(s, i, lits[k])
        /\ word_boundary(s, i)
        /\ word_boundary(s, i + Len(lits[k]))

\* re.search(r'\bgpt-?\d+\b', s): the first alternative of the first pattern
search_gpt_version(s) ==
    \E i \in 1..Len(s) : \E dash \in {0, 1} : \E n \in 1..Len(s) :
        /\ match_at(s, i, lit_gpt)
        /\ word_boundary(s, i)
        /\ dash = 1 => match_at(s, i + Len(lit_gpt), <<"-">>)
        /\ i + Len(lit_gpt) + dash + n - 1 <= Len(s)
        /\ \A j \in 0..(n - 1) : s[i + Len(lit_gpt) + dash + j] \in Digits
        /\ word_boundary(s, i + Len(lit_gpt) + dash + n)

\* re.search(r'\b(large language model|llm)s?\b', s)
search_optional_plural(s, lits) ==
    \E i \in 1..Len(s) : \E k \in DOMAIN lits :
        /\ match_at(s, i, lits[k])
        /\ word_boundary(s, i)
        /\ \/ word_boundary(s, i + Len(lits[k]))
           \/ /\ match_at(s, i + Len(lits[k]), <<"s">>)
              /\ word_boundary(s, i + Len(lits[k]) + 1)

\* re.search(r'\bgenerative\s+ai\b', s)
search_generative_ai(s) ==
    \E i \in 1..Len(s) : \E n \in 1..Len(s) :
        /\ match_at(s, i, lit_generative)
        /\ word_boundary(s, i)
        /\ i + Len(lit_generative) + n - 1 <= Len(s)
        /\ \A j \in 0..(n - 1) : is_space(s[i + Len(lit_generative) + j])
        /\ match_at(s, i + Len(lit_generative) + n, lit_ai)
        /\ word_boundary(s, i + Len(lit_generative) + n + Len(lit_ai))

\* genai_patterns: which of the seven regular expressions find a match
genai_patterns(s) ==
    << search_gpt_version(s) \/ search_literals(s, pattern1_literals),
       search_optional_plural(s, pattern2_literals),
       search_literals(s, pattern3_literals),
       search_literals(s, pattern4_literals),
       search_literals(s, pattern5_literals),
       search_literals(s, pattern6_literals),
       search_generative_ai(s) \/ search_literals(s, <<lit_genai>>) >>

\* the loop "for keyword in self.genai_keywords: if keyword in content_lower"
keyword_matches(content_lower, keywords) ==
    Cardinality({k \in DOMAIN keywords : Contains(content_lower, keywords[k])})

\* the loop "for pattern in genai_patterns: if re.search(pattern, content_lower)"
pattern_matches(content_lower) ==
    Cardinality({p \in DOMAIN genai_patterns(content_lower) : genai_patterns(content_lower)[p]})

\* sum(1 for indicator in context_indicators if indicator in content_lower)
context_matches(content_lower) ==
    Cardinality({c \in DOMAIN context_indicators : Contains(content_lower, context_indicators[c])})

\* len(content.split()), for a text made of `content` followed by `filler`
\* further space-separated words
word_count(content, filler) == split_word_count(content) + filler

Max(a, b) == IF a >= b THEN a ELSE b

\* a variant of the density test that also accepts a density of exactly 0.001
density_at_or_above_threshold(km, wc) ==
    LET num == IF wc > 0 THEN km ELSE 0
        den == IF wc > 0 THEN Max(wc, 1) ELSE 1
    IN  num * DENSITY_PER_MILLE_DENOMINATOR >= den

\* keyword_density > 0.001, the density being the fraction
\* keyword_matches / max(word_count, 1) if word_count > 0 else 0
density_above_threshold(km, wc) ==
    LET num == IF wc > 0 THEN km ELSE 0
        den == IF wc > 0 THEN Max(wc, 1) ELSE 1
    IN  num * DENSITY_PER_MILLE_DENOMINATOR > den

\* AIProcessor.is_genai_related(content), with self.genai_keywords = keywords
is_genai_related(content, filler, keywords) ==
    IF content = <<>> /\ filler = 0 THEN FALSE
    ELSE
      LET content_lower == str_lower(content)
          km == keyword_matches(content_lower, keywords)
          wc == word_count(content, filler)
          pm == pattern_matches(content_lower)
      IN  IF km >= 3 \/ pm >= 2 THEN TRUE
          ELSE IF km >= 1 /\ (density_above_threshold(km, wc) \/ pm >= 1) THEN TRUE
          ELSE IF context_matches(content_lower) >= 3 /\ km >= 1 THEN TRUE
          ELSE FALSE

-----------------------------------------------------------------------------
(* Summarizer (ai_processor.py, AIProcessor.summarize_article and          *)
(* AIProcessor._generate_extractive_summary)                               *)

\* "Summary not available"
SUMMARY_NOT_AVAILABLE == <<"S", "u", "m", "m", "a", "r", "y", " ", "n", "o", "t", " ", "a", "v", "a", "i", "l", "a", "b", "l", "e">>

ELLIPSIS == <<".", ".", ".">>

PERIOD == <<".">>

SENTENCE_SEPARATOR == <<".", " ">>

\* max_input_length: the word budget of the model's input
MAX_INPUT_LENGTH == 1024

\* the default of max_length
DEFAULT_MAX_LENGTH == 150

RECURSIVE split(_, _)
\* s.split(sep) for a non-empty sep
split(s, sep) ==
    IF Contains(s, sep)
    THEN LET i == CHOOSE i \in 1..Len(s) :
                    /\ match_at(s, i, sep)
                    /\ \A j \in 1..(i - 1) : ~match_at(s, j, sep)
         IN  <<SubSeq(s, 1, i - 1)>> \o split(SubSeq(s, i + Len(sep), Len(s)), sep)
    ELSE <<s>>

RECURSIVE split_whitespace(_)
\* s.split(): the maximal runs of non-whitespace characters
split_whitespace(s) ==
    IF \A i \in 1..Len(s) : is_space(s[i]) THEN <<>>
    ELSE LET b == CHOOSE b \in 1..Len(s) :
                    /\ ~is_space(s[b])
                    /\ \A j \in 1..(b - 1) : is_space(s[j])
             e == CHOOSE e \in b..Len(s) :
                    /\ \A j \in b..e : ~is_space(s[j])
                    /\ (e = Len(s) \/ is_space(s[e + 1]))
         IN  <<SubSeq(s, b, e)>> \o split_whitespace(SubSeq(s, e + 1, Len(s)))

\* s.strip()
strip(s) ==
    IF \A i \in 1..Len(s) : is_space(s[i]) THEN <<>>
    ELSE LET b == CHOOSE b \in 1..Len(s) :
                    ~is_space(s[b]) /\ \A j \in 1..(b - 1) : is_space(s[j])
             e == CHOOSE e \in 1..Len(s) :
                    ~is_space(s[e]) /\ \A j \in (e + 1)..Len(s) : is_space(s[j])
         IN  SubSeq(s, b, e)

\* a variant of the truncation that cuts the text and appends no ellipsis
truncate_without_ellipsis(content, max_length) ==
    IF Len(content) > max_length THEN Prefix(content, max_length) ELSE content

\* content[:max_length] + "..." if len(content) > max_length else content
truncate_with_ellipsis(content, max_length) ==
    IF Len(content) > max_length THEN Prefix(content, max_length) \o ELLIPSIS ELSE content

\* twice the score of sentence number i (counted from 0): +1 for every keyword
\* found in the lower-cased sentence, +0.5 for one of the first three sentences
sentence_score2(sentence, i, keywords) ==
    2 * keyword_matches(str_lower(sentence), keywords) + (IF i < 3 THEN 1 ELSE 0)

\* scored_sentences: the list of (score, sentence)
score_sentences(sentences, keywords) ==
    [i \in 1..Len(sentences) |->
        [score2 |-> sentence_score2(sentences[i], i - 1, keywords), sentence |-> sentences[i]]]

RemoveAt(s, i) == SubSeq(s, 1, i - 1) \o SubSeq(s, i + 1, Len(s))

RECURSIVE sort_by_score(_)
\* scored_sentences.sort(key=lambda x: x[0], reverse=True): the sort is stable,
\* equal scores keep their order
sort_by_score(scored) ==
    IF scored = <<>> THEN <<>>
    ELSE LET i == CHOOSE i \in 1..Len(scored) :
                    /\ \A j \in 1..Len(scored) : scored[j].score2 <= scored[i].score2
                    /\ \A j \in 1..(i - 1) : scored[j].score2 < scored[i].score2
         IN  <<scored[i]>> \o sort_by_score(RemoveAt(scored, i))

RECURSIVE select_sentences_skipping(_, _, _, _)
\* a variant of the loop that passes over a sentence that does not fit and
\* goes on with the next one
select_sentences_skipping(scored, summary_parts, current_length, max_length) ==
    IF scored = <<>> THEN summary_parts
    ELSE IF current_length + Len(scored[1].sentence) > max_length
    THEN select_sentences_skipping(Tail(scored), summary_parts, current_length, max_length)
    ELSE select_sentences_skipping(Tail(scored), Append(summary_parts, scored[1].sentence),
                                   current_length + Len(scored[1].sentence), max_length)

RECURSIVE select_sentences(_, _, _, _)
\* the loop that builds summary_parts: it stops at the first sentence that
\* would take current_length above max_length
select_sentences(scored, summary_parts, current_length, max_length) ==
    IF scored = <<>> THEN summary_parts
    ELSE IF current_length + Len(scored[1].sentence) > max_length THEN summary_parts
    ELSE select_sentences(Tail(scored), Append(summary_parts, scored[1].sentence),
                          current_length + Len(scored[1].sentence), max_length)

\* summary_parts of _generate_extractive_summary for a text of more than 2 sentences
summary_parts_of(content, max_length, keywords) ==
    select_sentences(sort_by_score(score_sentences(split(content, SENTENCE_SEPARATOR), keywords)),
                     <<>>, 0, max_length)

\* a variant of the fallback that scores and selects whatever the number of
\* sentences
extractive_summary_always_scored(content, max_length, keywords) ==
    LET joined  == Join(summary_parts_of(content, max_length, keywords), SENTENCE_SEPARATOR)
        summary == IF joined # <<>> /\ ~EndsWith(joined, PERIOD)
                   THEN joined \o PERIOD ELSE joined
    IN  IF summary # <<>> THEN summary
        ELSE Prefix(content, max_length) \o ELLIPSIS

\* AIProcessor._generate_extractive_summary(content, max_length)
generate_extractive_summary(content, max_length, keywords) ==
    LET sentences == split(content, SENTENCE_SEPARATOR)
    IN  IF Len(sentences) <= 2 THEN truncate_with_ellipsis(content, max_length)
        ELSE LET joined  == Join(summary_parts_of(content, max_length, keywords), SENTENCE_SEPARATOR)
                 summary == IF joined # <<>> /\ ~EndsWith(joined, PERIOD)
                            THEN joined \o PERIOD ELSE joined
             IN  IF summary # <<>> THEN summary
                 ELSE Prefix(content, max_length) \o ELLIPSIS

\* the input handed to the model: at most max_input_length words
cap_words(content) ==
    IF Len(split_whitespace(content)) > MAX_INPUT_LENGTH
    THEN Join(SubSeq(split_whitespace(content), 1, MAX_INPUT_LENGTH), <<" ">>)
    ELSE content

\* the clean-up of the model's summary_text
clean_summary(summary_text) ==
    IF EndsWith(strip(summary_text), PERIOD) THEN strip(summary_text)
    ELSE strip(summary_text) \o PERIOD

\* AIProcessor.summarize_article(content, max_length); loaded is the truth
\* value of self.summarizer, outcome is what the call of the model does
summarize_article(content, max_length, loaded, outcome, keywords) ==
    IF content = <<>> \/ ~loaded THEN SUMMARY_NOT_AVAILABLE
    ELSE IF outcome.raises
         THEN generate_extractive_summary(cap_words(content), max_length, keywords)
         ELSE clean_summary(outcome.summary_text)

-----------------------------------------------------------------------------
(* Ledger (storage.py, ArticleStorage): timestamps and the JSON file       *)

DigitChars == <<"0", "1", "2", "3", "4", "5", "6", "7", "8", "9">>

\* datetime.isoformat(): a fixed-width text; the model's clock counts ticks
\* and the text is its two decimal digits
isoformat(t) == <<DigitChars[(t \div 10) + 1], DigitChars[(t % 10) + 1]>>

digit_value(c) == (CHOOSE i \in DOMAIN DigitChars : DigitChars[i] = c) - 1

\* datetime.fromisoformat(s) raises ValueError on a text of another shape
fromisoformat_raises(s) == ~(Len(s) = 2 /\ s[1] \in Digits /\ s[2] \in Digits)

\* datetime.fromisoformat(s) for a text it accepts
fromisoformat(s) == 10 * digit_value(s[1]) + digit_value(s[2])

\* title=None
None == "None"

\* the order in which the entries of "articles" are written
UrlOrder == <<"u1", "u2">>

Urls == Range(UrlOrder)

Titles == {None, "title"}

JsonToken(kind, key, text, title, seen_count) ==
    [kind |-> kind, key |-> key, text |-> text, title |-> title, seen_count |-> seen_count]

RECURSIVE dump_articles(_, _)
\* the members of "articles": one per URL of the mapping
dump_articles(articles, order) ==
    IF order = <<>> THEN <<>>
    ELSE (IF order[1] \in DOMAIN articles
          THEN <<JsonToken("entry", order[1], articles[order[1]].first_seen,
                           articles[order[1]].title, articles[order[1]].seen_count)>>
          ELSE <<>>) \o dump_articles(articles, Tail(order))

\* json.dump(self.seen_articles, f): the text written, member by member
json_dump(data) ==
    <<JsonToken("{", "", <<>>, None, 0),
      JsonToken("member", "created_at", data.created_at, None, 0),
      JsonToken("member", "last_updated", data.last_updated, None, 0),
      JsonToken("articles{", "", <<>>, None, 0)>>
    \o dump_articles(data.articles, UrlOrder)
    \o <<JsonToken("}}", "", <<>>, None, 0)>>

\* json.load(f) raises on a text that is not one complete document
json_load_raises(text) ==
    ~ /\ Len(text) >= 5
      /\ text[1].kind = "{"
      /\ text[2].kind = "member" /\ text[2].key = "created_at"
      /\ text[3].kind = "member" /\ text[3].key = "last_updated"
      /\ text[4].kind = "articles{"
      /\ \A i \in 5..(Len(text) - 1) : text[i].kind = "entry"
      /\ text[Len(text)].kind = "}}"

\* a variant of the parser that reads every seen_count as 1
json_load_counts_reset(text) ==
    [created_at   |-> text[2].text,
     last_updated |-> text[3].text,
     articles     |-> [u \in {text[i].key : i \in 5..(Len(text) - 1)} |->
                         LET i == CHOOSE i \in 5..(Len(text) - 1) : text[i].key = u
                         IN  [title |-> text[i].title, first_seen |-> text[i].text,
                              seen_count |-> 1]]]

\* json.load(f) for a complete document
json_load(text) ==
    [created_at   |-> text[2].text,
     last_updated |-> text[3].text,
     articles     |-> [u \in {text[i].key : i \in 5..(Len(text) - 1)} |->
                         LET i == CHOOSE i \in 5..(Len(text) - 1) : text[i].key = u
                         IN  [title |-> text[i].title, first_seen |-> text[i].text,
                              seen_count |-> text[i].seen_count]]]

\* a file of the file system: it exists or not, and holds a text
NoFile == [exists |-> FALSE, text |-> <<>>]

File(text) == [exists |-> TRUE, text |-> text]

\* the structure _load_seen_articles returns when there is no usable store
new_storage(now) ==
    [created_at |-> isoformat(now), last_updated |-> isoformat(now), articles |-> <<>>]

\* a variant of the load that answers an unreadable store with the
\* timestamps of the epoch
load_seen_articles_stale_timestamps(file, now) ==
    IF file.exists
    THEN IF json_load_raises(file.text) THEN new_storage(0) ELSE json_load(file.text)
    ELSE new_storage(now)

\* ArticleStorage._load_seen_articles, run at time now on the canonical file
load_seen_articles(file, now) ==
    IF file.exists
    THEN IF json_load_raises(file.text) THEN new_storage(now) ELSE json_load(file.text)
    ELSE new_storage(now)

\* a variant of the write that opens the canonical file itself
temp_file_in_place == "storage_file"

\* temp_file = f"{self.storage_file}.tmp": the file the snapshot is written to
temp_file == "temp_file"

\* url in self.seen_articles.get("articles", {})
is_article_seen(data, url) == url \in DOMAIN data.articles

\* a variant of the count that starts again at 1 on every call
next_seen_count_reset(articles, url) == 1

\* self.seen_articles["articles"].get(url, {}).get("seen_count", 0) + 1
next_seen_count(articles, url) ==
    (IF url \in DOMAIN articles THEN articles[url].seen_count ELSE 0) + 1

\* the entry mark_article_seen stores for url
seen_entry(articles, url, title, now) ==
    [title |-> title, first_seen |-> isoformat(now), seen_count |-> next_seen_count(articles, url)]

\* self.seen_articles["articles"][url] = {...}
with_entry(data, url, entry) ==
    [data EXCEPT !.articles =
        [u \in DOMAIN data.articles \cup {url} |-> IF u = url THEN entry ELSE data.articles[u]]]

\* timedelta(days=days_old), in ticks of the clock
TICKS_PER_DAY == 2

\* a variant of the selection that also removes an entry first seen at the cutoff
urls_to_remove_inclusive(articles, days_old, now) ==
    {u \in DOMAIN articles :
        \/ fromisoformat_raises(articles[u].first_seen)
        \/ fromisoformat(articles[u].first_seen) <= now - days_old * TICKS_PER_DAY}

\* a variant of the selection that keeps the entries whose date does not parse
urls_to_remove_parsable(articles, days_old, now) ==
    {u \in DOMAIN articles :
        /\ ~fromisoformat_raises(articles[u].first_seen)
        /\ fromisoformat(articles[u].first_seen) < now - days_old * TICKS_PER_DAY}

\* urls_to_remove of cleanup_old_articles at time now
urls_to_remove(articles, days_old, now) ==
    {u \in DOMAIN articles :
        \/ fromisoformat_raises(articles[u].first_seen)
        \/ fromisoformat(articles[u].first_seen) < now - days_old * TICKS_PER_DAY}

\* for url in urls_to_remove: del articles[url]
without_urls(data, urls) ==
    [data EXCEPT !.articles = [u \in DOMAIN data.articles \ urls |-> data.articles[u]]]

\* os.rename(src, dst) on the files of the directory
rename(fs, src, dst) ==
    IF src = dst THEN fs ELSE [fs EXCEPT ![dst] = fs[src], ![src] = NoFile]

\* a variant of the handler in which the exception leaves the call
save_failure_escapes == "crashed"

\* except Exception as e: logger.error(...): _save_seen_articles returns
save_failure_pc == "idle"

\* the memory of a process that has died
LostMemory == [created_at |-> <<>>, last_updated |-> <<>>, articles |-> <<>>]

\* the stores a process may find when it starts: none, or one written by an
\* earlier process
InitialStores ==
    {NoFile,
     File(json_dump([created_at |-> isoformat(0), last_updated |-> isoformat(0),
                     articles |-> [u \in {"u1"} |->
                         [title |-> "title", first_seen |-> isoformat(0), seen_count |-> 1]]]))}

MaxTime == 2

MaxSeenCount == 2

MaxFaults == 1

\* the values of days_old tried
DaysOld == {0, 1, 10000}

\* a first_seen text that datetime.fromisoformat does not accept
INVALID_TIMESTAMP == <<"x">>

\* the first_seen texts of the entries a storage file may hold
FirstSeenTexts == {isoformat(t) : t \in 0..MaxTime} \cup {INVALID_TIMESTAMP}

\* the "articles" mappings a storage file may hold
StoredArticles ==
    UNION {[S -> {[title |-> "title", first_seen |-> f, seen_count |-> 1] : f \in FirstSeenTexts}] :
              S \in SUBSET Urls}

\* the stores cleanup_old_articles is tried on
CleanupStores ==
    {File(json_dump([created_at |-> isoformat(0), last_updated |-> isoformat(0),
                     articles |-> a])) : a \in StoredArticles}

\* a storage file that json.load does not accept: the text of a snapshot cut
\* off after its first entry, and an empty file
UnreadableStores ==
    {File(SubSeq(s.text, 1, Len(s.text) - 1)) : s \in InitialStores \ {NoFile}} \cup {File(<<>>)}

\* the stores a process may find when an earlier write was damaged from
\* outside: none, a complete one, or an unreadable one
StartupStores == InitialStores \cup UnreadableStores

-----------------------------------------------------------------------------
(* Article table (database.py, DatabaseManager) and the pages of the       *)
(* monitored sites                                                          *)

\* a variant of the query that never finds a URL
db_is_article_seen_never(table, url, query_ok) == FALSE

\* SELECT 1 FROM articles WHERE url = %s; a failed query is logged and
\* answered False
db_is_article_seen(table, url, query_ok) == query_ok /\ url \in DOMAIN table

\* a variant of the statement that stores nothing
db_save_article_dropped(table, url, row, statement_ok) == table

\* INSERT ... ON CONFLICT (url) DO UPDATE; a failed statement is logged and
\* leaves the table as it was
db_save_article(table, url, row, statement_ok) ==
    IF statement_ok
    THEN [u \in DOMAIN table \cup {url} |-> IF u = url THEN row ELSE table[u]]
    ELSE table

\* a variant of the test that processes every candidate
candidate_is_new_always(seen) == TRUE

\* if not db.is_article_seen(article['url']): the candidate is processed
candidate_is_new(seen) == ~seen

\* the candidate articles the sites show
ArticleUrls == {"a1", "a2"}

GENAI_PAGE == <<"g", "e", "n", "e", "r", "a", "t", "i", "v", "e", " ", "a", "i", " ", "c", "h", "a", "t", "g", "p", "t">>

OTHER_PAGE == <<"b", "a", "n", "k">>

\* article['content'] of the candidate with this URL
content_of(url) == IF url = "a1" THEN GENAI_PAGE ELSE OTHER_PAGE

\* article['title']
title_of(url) == IF url = "a1" THEN "genai title" ELSE "other title"

\* what scrape_articles may return for a site: a list of candidates
ScrapeResults == {<<>>, <<"a1">>, <<"a2">>, <<"a1", "a2">>, <<"a1", "a1">>}

\* the list _parse_websites ends with when nothing else is configured
DEFAULT_WEBSITES ==
    <<"https://www.jpmorganchase.com/news",
      "https://www.jpmorgan.com/insights",
      "https://newsroom.bankofamerica.com",
      "https://about.bankofamerica.com/en/making-an-impact",
      "https://www.capitalone.com/about/newsroom",
      "https://www.capitalone.com/tech">>

\* from simple_database import SimpleDatabase fails: the module is not there
NoSimpleDatabase == [raises |-> TRUE, websites |-> <<>>]

\* what the look-up of the company websites may do: raise, or return a list
CompanyWebsites ==
    {NoSimpleDatabase, [raises |-> FALSE, websites |-> <<>>],
     [raises |-> FALSE, websites |-> <<"https://example.com/news">>]}

\* [url.strip() for url in websites_str.split(",") if url.strip()]
stripped_urls(websites_str) ==
    LET parts == split(websites_str, <<",">>)
    IN  SelectSeq([i \in DOMAIN parts |-> strip(parts[i])], LAMBDA url : url # <<>>)

\* Config._parse_websites: the environment variable when it is set, else the
\* company websites when the look-up returns some, else the default list
parse_websites(websites_str, company) ==
    IF websites_str # <<>> THEN stripped_urls(websites_str)
    ELSE IF ~company.raises /\ company.websites # <<>> THEN company.websites
    ELSE DEFAULT_WEBSITES

\* WEBSITES in the environment of the scheduler runs: "," and "s1,s2"
WebsiteConfigs == {<<",">>, <<"s", "1", ",", "s", "2">>}

\* the pieces the values of WEBSITES are made of in the configuration runs
UrlPieces == {<<>>, <<" ">>, <<"s", "1">>, <<" ", "s", "2", " ">>}

MaxParts == 3

\* the values of WEBSITES tried in the configuration runs: unset, or up to
\* MaxParts pieces with commas between them
EnvWebsites ==
    {Join(parts, <<",">>) : parts \in UNION {[1..k -> UrlPieces] : k \in 0..MaxParts}}

\* what the model does when a run's summarize_article calls it
RunModelOutcomes ==
    {[raises |-> TRUE, summary_text |-> <<>>], [raises |-> FALSE, summary_text |-> <<"a", "i">>]}

MaxRuns == 3

\* a variant of the validation that accepts an empty list
config_never_raises(websites) == FALSE

\* Config._validate_config raises ValueError
config_raises(websites) == websites = <<>>

\* setup_schedule: how many jobs the cadence registers
number_of_jobs(interval) == IF interval = "twice_daily" THEN 2 ELSE 1

\* valid_intervals of run_scheduler.py; setup_schedule has a branch for each
valid_intervals == {"hourly", "every_2_hours", "every_6_hours", "daily", "twice_daily", "weekly"}

\* the cadences the scheduler is started with: a valid one with two jobs and one that
\* is not a cadence, for which setup_schedule registers the daily job
ScheduleIntervals == {"twice_daily", "fortnightly"}

\* the scripts that start the scheduler
EntryPoints == {"scheduler.py", "run_scheduler.py"}

\* the signals that ask the process to end
Signals == {"SIGINT", "SIGTERM"}

\* the exit status of a process ended by SIGTERM
KILLED_BY_SIGTERM == 143

\* time.sleep(60): the poll of the loop
POLL_SECONDS == 60

\* time.sleep(300): the cool-down of the loop's handler
COOL_DOWN_SECONDS == 300


\* the default of max_retries is 3; the values tried are 0..MaxRetries
MaxRetries == 3

\* the values of delay tried are 1..MaxDelay
MaxDelay == 3

\* what a call of func may do: raise one of two exceptions, or return one
\* of two values
FuncOutcomes ==
    {[raises |-> r, value |-> v] : r \in BOOLEAN, v \in {"first", "second"}}

\* no call of retry_on_failure is in progress
NoRetry == [pc |-> "none", max_retries |-> 0, delay |-> 0, attempt |-> 0,
            outcomes |-> <<>>, waits |-> <<>>, result |-> None, raised |-> None]

\* a variant of the wait that does not grow
wait_time_constant(delay, attempt) == delay

\* wait_time = delay * (2 ** attempt)
wait_time(delay, attempt) == delay * (2 ^ attempt)

-----------------------------------------------------------------------------
(* Inputs of the classifier runs                                           *)

\* phrases the classified texts are made of
Vocabulary ==
    << <<"g", "p", "t">>,
       <<"C", "h", "a", "t", "G", "P", "T">>,
       <<"l", "l", "m", "s">>,
       <<"g", "p", "t", "-", "4">>,
       <<"s", "t", "a", "b", "l", "e", " ", "d", "i", "f", "f", "u", "s", "i", "o", "n">>,
       <<"d", "e", "e", "p", " ", "l", "e", "a", "r", "n", "i", "n", "g">>,
       <<"c", "o", "m", "p", "u", "t", "e", "r", " ", "v", "i", "s", "i", "o", "n", " ", "a", "l", "g", "o", "r", "i", "t", "h", "m">>,
       <<"c", "o", "n", "t", "e", "n", "t", " ", "g", "e", "n", "e", "r", "a", "t", "i", "o", "n">>,
       <<"d", "a", "l", "l", "e">>,
       <<"b", "a", "n", "k">> >>

MaxPhrases == 2

\* the words appended after the phrases: none, or enough of them to bring the
\* keyword density to 0.001 and below
FillerWords == {0, 998, 999, 1998}

ClassifierTexts ==
    {Join([i \in DOMAIN f |-> Vocabulary[f[i]]], <<" ">>) :
        f \in UNION {[1..k -> DOMAIN Vocabulary] : k \in 0..MaxPhrases}}

-----------------------------------------------------------------------------
(* Inputs of the summarizer runs                                           *)

\* the sentences the summarized texts are made of
Fragments ==
    << <<>>,
       <<"x">>,
       <<"a", "i">>,
       <<"x", "x", "x">>,
       <<"g", "p", "t", " ", "A", "I", ".">> >>

MaxSentences == 4

\* the values of max_length tried, besides the default
MaxLength == 6

SummarizerTexts ==
    {Join([i \in DOMAIN f |-> Fragments[f[i]]], SENTENCE_SEPARATOR) :
        f \in UNION {[1..k -> DOMAIN Fragments] : k \in 0..MaxSentences}}

\* the keyword list configured for the summarizer runs (GENAI_KEYWORDS=ai,gpt)
SUMMARIZER_KEYWORDS ==
    << <<"a", "i">>,
       <<"g", "p", "t">> >>

\* what a call of the model can do: raise, or return a summary_text
ModelOutcomes ==
    {[raises |-> TRUE, summary_text |-> <<>>]} \cup
    {[raises |-> FALSE, summary_text |-> t] : t \in {<<>>, <<"a", "i">>, <<" ", "a", "i", ".", " ">>}}

-----------------------------------------------------------------------------
(* State                                                                   *)

VARIABLES
    genai_keywords,   \* AIProcessor.genai_keywords
    summarizer,       \* AIProcessor.summarizer is set (the model was loaded)
    content,          \* the text handed to the classifier or the summarizer
    filler,           \* further filler words that follow content
    max_length,       \* the max_length handed to summarize_article
    model_outcome,    \* what the model did when summarize_article called it
    verdict,          \* what is_genai_related returned
    summary,          \* what summarize_article returned
    called,           \* which function has been applied to content
    now,              \* the clock, in ticks
    seen_articles,    \* ArticleStorage.seen_articles
    files,            \* the canonical ledger file and the temporary file
    ledger_pc,        \* where the ledger's process is
    saving_text,      \* the text json.dump is writing
    file_before_save, \* the canonical file when the write in progress began
    faults,           \* how many writes have failed and processes have died
    WEBSITES,         \* config.WEBSITES
    schedule_interval, \* ContentScheduler.schedule_interval
    sched_pc,         \* where the scheduler process is
    is_running,       \* ContentScheduler.is_running
    exit_code,        \* the exit status of the process, -1 while it lives
    due_jobs,         \* the due jobs run_pending has still to run
    run_pc,           \* where main() is
    runs,             \* how many runs have begun
    site_idx,         \* the position of the loop over config.WEBSITES
    articles,         \* the candidates scraped from the current site
    art_idx,          \* the position of the loop over articles
    new_articles,     \* main()'s new_articles
    db_articles,      \* the rows of the articles table, by url
    run_faults,       \* how many statements have failed and exceptions were raised
    classified,       \* how many times each URL has been classified
    summarized,       \* how many times each URL has been summarized
    seen_answer,      \* what the last seen-check of the run answered
    entry_point,      \* the script the scheduler process was started with
    fetched,          \* the sources scrape_articles was called for in the run, in order
    raised_at,        \* the sources of the run whose handler caught an exception
    run_failed,       \* an exception has left main() since the loop last slept
    slept,            \* the seconds of the sleep the loop has just ended, else 0
    monitoring_stats, \* the rows of the monitoring_stats table
    websites_str,     \* os.getenv("WEBSITES", "")
    company_websites, \* what SimpleDatabase().get_all_websites() does
    worker_articles,  \* the candidates each concurrent worker goes through
    worker_idx,       \* the position of each worker in its candidates
    worker_pc,        \* where each worker is in the sequence for its candidate
    atomic_check_and_set,  \* the seen-check also records the URL, in one step
    retry             \* a call of retry_on_failure: its arguments, locals and history

textVars == <<genai_keywords, summarizer, content, filler, max_length, model_outcome,
              verdict, summary, called>>

ledgerVars == <<now, seen_articles, files, ledger_pc, saving_text, file_before_save, faults>>

pipelineVars == <<WEBSITES, schedule_interval, sched_pc, is_running, exit_code, due_jobs, run_pc,
                  runs, site_idx, articles, art_idx, new_articles, db_articles, run_faults,
                  classified, summarized, seen_answer, entry_point, fetched, raised_at,
                  run_failed, slept, monitoring_stats, websites_str, company_websites,
                  worker_articles, worker_idx, worker_pc, atomic_check_and_set, retry>>

vars == <<textVars, ledgerVars, pipelineVars>>

NotCalled == [raises |-> FALSE, summary_text |-> <<>>]

\* the variables of the classifier and summarizer runs, when another part runs
TextIdle ==
    /\ genai_keywords = DEFAULT_GENAI_KEYWORDS
    /\ summarizer = FALSE
    /\ content = <<>>
    /\ filler = 0
    /\ max_length = DEFAULT_MAX_LENGTH
    /\ model_outcome = NotCalled
    /\ verdict = FALSE
    /\ summary = <<>>
    /\ called = "none"

\* the variables of the ledger, when another part runs
LedgerIdle ==
    /\ now = 0
    /\ seen_articles = [created_at |-> <<>>, last_updated |-> <<>>, articles |-> <<>>]
    /\ files = [f \in {"storage_file", "temp_file"} |-> [exists |-> FALSE, text |-> <<>>]]
    /\ ledger_pc = "idle"
    /\ saving_text = <<>>
    /\ file_before_save = [exists |-> FALSE, text |-> <<>>]
    /\ faults = 0

\* the variables of the scheduler and its runs, when another part runs
PipelineIdle ==
    /\ WEBSITES = <<>>
    /\ schedule_interval = "daily"
    /\ sched_pc = "init"
    /\ is_running = FALSE
    /\ exit_code = -1
    /\ due_jobs = 0
    /\ run_pc = "idle"
    /\ runs = 0
    /\ site_idx = 0
    /\ articles = <<>>
    /\ art_idx = 0
    /\ new_articles = <<>>
    /\ db_articles = <<>>
    /\ run_faults = 0
    /\ classified = <<>>
    /\ summarized = <<>>
    /\ seen_answer = FALSE
    /\ entry_point = "scheduler.py"
    /\ fetched = <<>>
    /\ raised_at = {}
    /\ run_failed = FALSE
    /\ slept = 0
    /\ monitoring_stats = <<>>
    /\ websites_str = <<>>
    /\ company_websites = NoSimpleDatabase
    /\ worker_articles = <<>>
    /\ worker_idx = <<>>
    /\ worker_pc = <<>>
    /\ atomic_check_and_set = FALSE
    /\ retry = NoRetry

-----------------------------------------------------------------------------
(* Classifier runs: is_genai_related applied to one text                   *)

InitClassifier ==
    /\ genai_keywords = DEFAULT_GENAI_KEYWORDS
    /\ summarizer = FALSE
    /\ content \in ClassifierTexts \cup {<<" ">>}
    /\ filler \in FillerWords
    /\ max_length = DEFAULT_MAX_LENGTH
    /\ model_outcome = NotCalled
    /\ verdict = FALSE
    /\ summary = <<>>
    /\ called = "none"
    /\ LedgerIdle
    /\ PipelineIdle

Classify ==
    /\ called = "none"
    /\ verdict' = is_genai_related(content, filler, genai_keywords)
    /\ called' = "is_genai_related"
    /\ UNCHANGED <<genai_keywords, summarizer, content, filler, max_length,
                   model_outcome, summary>>
    /\ UNCHANGED <<ledgerVars, pipelineVars>>

NextClassifier == Classify

SpecClassifier == InitClassifier /\ [][NextClassifier]_vars

-----------------------------------------------------------------------------
(* Summarizer runs: summarize_article applied to one text                  *)

InitSummarizer ==
    /\ genai_keywords = SUMMARIZER_KEYWORDS
    /\ summarizer \in BOOLEAN
    /\ content \in SummarizerTexts
    /\ filler = 0
    /\ max_length \in (0..MaxLength) \cup {DEFAULT_MAX_LENGTH}
    /\ model_outcome = NotCalled
    /\ verdict = FALSE
    /\ summary = <<>>
    /\ called = "none"
    /\ LedgerIdle
    /\ PipelineIdle

\* the model is called only when there is a text and a loaded model
model_is_called == content # <<>> /\ summarizer

Summarize ==
    /\ called = "none"
    /\ \E outcome \in ModelOutcomes :
        /\ model_outcome' = IF model_is_called THEN outcome ELSE NotCalled
        /\ summary' = summarize_article(content, max_length, summarizer, outcome, genai_keywords)
    /\ called' = "summarize_article"
    /\ UNCHANGED <<genai_keywords, summarizer, content, filler, max_length, verdict>>
    /\ UNCHANGED <<ledgerVars, pipelineVars>>

NextSummarizer == Summarize

SpecSummarizer == InitSummarizer /\ [][NextSummarizer]_vars

-----------------------------------------------------------------------------
(* Ledger runs: one process at a time owns an ArticleStorage; it may fail  *)
(* to write, and it may die and be started again                           *)

InitLedger ==
    /\ TextIdle
    /\ PipelineIdle
    /\ now = 1
    /\ files \in {[f \in {"storage_file", "temp_file"} |->
                      IF f = "storage_file" THEN s ELSE NoFile] : s \in InitialStores}
    /\ seen_articles = load_seen_articles(files["storage_file"], now)
    /\ ledger_pc = "idle"
    /\ saving_text = <<>>
    /\ file_before_save = files["storage_file"]
    /\ faults = 0

\* the clock advances; the steps of a write do not read it
Tick ==
    /\ ledger_pc \in {"idle", "crashed"}
    /\ now < MaxTime
    /\ now' = now + 1
    /\ UNCHANGED <<seen_articles, files, ledger_pc, saving_text, file_before_save, faults>>
    /\ UNCHANGED <<textVars, pipelineVars>>

\* a variant of the write that leaves "last_updated" as it was
begin_save_without_last_updated(data) ==
    /\ seen_articles' = data
    /\ saving_text' = json_dump(seen_articles')
    /\ file_before_save' = files["storage_file"]
    /\ ledger_pc' = "open_temp"

\* _save_seen_articles, up to the point where the temporary file is opened
begin_save(data) ==
    /\ seen_articles' = [data EXCEPT !.last_updated = isoformat(now)]
    /\ saving_text' = json_dump(seen_articles')
    /\ file_before_save' = files["storage_file"]
    /\ ledger_pc' = "open_temp"

\* mark_article_seen(url, title)
MarkSeen(url, title) ==
    /\ ledger_pc = "idle"
    /\ next_seen_count(seen_articles.articles, url) <= MaxSeenCount
    /\ begin_save(with_entry(seen_articles, url,
                             seen_entry(seen_articles.articles, url, title, now)))
    /\ UNCHANGED <<now, files, faults>>
    /\ UNCHANGED <<textVars, pipelineVars>>

\* cleanup_old_articles(days_old)
Cleanup(days_old) ==
    /\ ledger_pc = "idle"
    /\ LET urls == urls_to_remove(seen_articles.articles, days_old, now)
       IN  IF urls # {}
           THEN begin_save(without_urls(seen_articles, urls))
           ELSE UNCHANGED <<seen_articles, saving_text, file_before_save, ledger_pc>>
    /\ UNCHANGED <<now, files, faults>>
    /\ UNCHANGED <<textVars, pipelineVars>>

\* with open(temp_file, 'w') as f
SaveOpenTemp ==
    /\ ledger_pc = "open_temp"
    /\ files' = [files EXCEPT ![temp_file] = File(<<>>)]
    /\ ledger_pc' = "write"
    /\ UNCHANGED <<now, seen_articles, saving_text, file_before_save, faults>>
    /\ UNCHANGED <<textVars, pipelineVars>>

\* json.dump writes the next piece of the text
SaveWrite ==
    /\ ledger_pc = "write"
    /\ Len(files[temp_file].text) < Len(saving_text)
    /\ files' = [files EXCEPT ![temp_file] =
                    File(Append(files[temp_file].text, saving_text[Len(files[temp_file].text) + 1]))]
    /\ UNCHANGED <<now, seen_articles, ledger_pc, saving_text, file_before_save, faults>>
    /\ UNCHANGED <<textVars, pipelineVars>>

\* the with block ends: the temporary file is complete and closed
SaveClose ==
    /\ ledger_pc = "write"
    /\ Len(files[temp_file].text) = Len(saving_text)
    /\ ledger_pc' = "rename"
    /\ UNCHANGED <<now, seen_articles, files, saving_text, file_before_save, faults>>
    /\ UNCHANGED <<textVars, pipelineVars>>

\* os.rename(temp_file, self.storage_file)
SaveRename ==
    /\ ledger_pc = "rename"
    /\ files' = rename(files, temp_file, "storage_file")
    /\ ledger_pc' = "idle"
    /\ saving_text' = <<>>
    /\ file_before_save' = files'["storage_file"]
    /\ UNCHANGED <<now, seen_articles, faults>>
    /\ UNCHANGED <<textVars, pipelineVars>>

\* a step of the write raises: the exception is logged and the call returns
SaveFail ==
    /\ ledger_pc \in {"open_temp", "write", "rename"}
    /\ faults < MaxFaults
    /\ faults' = faults + 1
    /\ ledger_pc' = save_failure_pc
    /\ saving_text' = <<>>
    /\ file_before_save' = files["storage_file"]
    /\ UNCHANGED <<now, seen_articles, files>>
    /\ UNCHANGED <<textVars, pipelineVars>>

\* the process dies: the files stay as they are
Crash ==
    /\ ledger_pc # "crashed"
    /\ faults < MaxFaults
    /\ faults' = faults + 1
    /\ ledger_pc' = "crashed"
    /\ seen_articles' = LostMemory
    /\ UNCHANGED <<now, files, saving_text, file_before_save>>
    /\ UNCHANGED <<textVars, pipelineVars>>

\* a new process constructs ArticleStorage
Restart ==
    /\ ledger_pc = "crashed"
    /\ seen_articles' = load_seen_articles(files["storage_file"], now)
    /\ ledger_pc' = "idle"
    /\ saving_text' = <<>>
    /\ file_before_save' = files["storage_file"]
    /\ UNCHANGED <<now, files, faults>>
    /\ UNCHANGED <<textVars, pipelineVars>>

NextLedger ==
    \/ Tick
    \/ \E url \in Urls : \E title \in Titles : MarkSeen(url, title)
    \/ \E days_old \in DaysOld : Cleanup(days_old)
    \/ SaveOpenTemp
    \/ SaveWrite
    \/ SaveClose
    \/ SaveRename
    \/ SaveFail
    \/ Crash
    \/ Restart

SpecLedger == InitLedger /\ [][NextLedger]_vars

-----------------------------------------------------------------------------
(* Cleanup runs: cleanup_old_articles applied to the ledger a process has  *)
(* loaded, at one instant of the clock                                     *)

InitCleanup ==
    /\ TextIdle
    /\ PipelineIdle
    /\ now \in 0..MaxTime
    /\ files \in {[f \in {"storage_file", "temp_file"} |->
                      IF f = "storage_file" THEN s ELSE NoFile] : s \in CleanupStores}
    /\ seen_articles = load_seen_articles(files["storage_file"], now)
    /\ ledger_pc = "idle"
    /\ saving_text = <<>>
    /\ file_before_save = files["storage_file"]
    /\ faults = 0

NextCleanup ==
    \/ \E days_old \in DaysOld : Cleanup(days_old)
    \/ SaveOpenTemp
    \/ SaveWrite
    \/ SaveClose
    \/ SaveRename
    \/ SaveFail

SpecCleanup == InitCleanup /\ [][NextCleanup]_vars

-----------------------------------------------------------------------------
(* Start-up runs: a process constructs ArticleStorage on whatever store it *)
(* finds, marks articles, ends and is followed by a new process            *)

InitStartup ==
    /\ TextIdle
    /\ PipelineIdle
    /\ now = 1
    /\ files \in {[f \in {"storage_file", "temp_file"} |->
                      IF f = "storage_file" THEN s ELSE NoFile] : s \in StartupStores}
    /\ seen_articles = load_seen_articles(files["storage_file"], now)
    /\ ledger_pc = "idle"
    /\ saving_text = <<>>
    /\ file_before_save = files["storage_file"]
    /\ faults = 0

NextStartup ==
    \/ Tick
    \/ \E url \in Urls : \E title \in Titles : MarkSeen(url, title)
    \/ SaveOpenTemp
    \/ SaveWrite
    \/ SaveClose
    \/ SaveRename
    \/ Crash
    \/ Restart

SpecStartup == InitStartup /\ [][NextStartup]_vars
-----------------------------------------------------------------------------
(* Scheduler process (scheduler.py, ContentScheduler; run_scheduler.py)    *)
(* running monitoring runs (main.py, main) against the article table       *)

InitPipeline ==
    /\ TextIdle
    /\ LedgerIdle
    /\ WEBSITES = <<>>
    /\ websites_str \in WebsiteConfigs
    /\ company_websites = NoSimpleDatabase
    /\ worker_articles = <<>>
    /\ worker_idx = <<>>
    /\ worker_pc = <<>>
    /\ atomic_check_and_set = FALSE
    /\ retry = NoRetry
    /\ sched_pc = "init"
    /\ is_running = FALSE
    /\ exit_code = -1
    /\ due_jobs = 0
    /\ run_pc = "idle"
    /\ runs = 0
    /\ site_idx = 0
    /\ articles = <<>>
    /\ art_idx = 0
    /\ new_articles = <<>>
    /\ db_articles = <<>>
    /\ classified = [u \in ArticleUrls |-> 0]
    /\ summarized = [u \in ArticleUrls |-> 0]
    /\ run_faults = 0
    /\ seen_answer = FALSE
    /\ schedule_interval \in ScheduleIntervals
    /\ entry_point \in EntryPoints
    /\ fetched = <<>>
    /\ raised_at = {}
    /\ run_failed = FALSE
    /\ slept = 0
    /\ monitoring_stats = <<>>

\* the variables a run leaves alone; main() never calls save_monitoring_stats
runFrame == <<genai_keywords, content, filler, max_length, called, ledgerVars, websites_str,
              company_websites, worker_articles, worker_idx, worker_pc, atomic_check_and_set,
              retry,
              schedule_interval, entry_point, monitoring_stats>>

\* main() is entered: a run begins
begin_run ==
    /\ run_pc' = "config"
    /\ runs' = runs + 1
    /\ site_idx' = 0
    /\ articles' = <<>>
    /\ art_idx' = 0
    /\ new_articles' = <<>>
    /\ seen_answer' = FALSE
    /\ fetched' = <<>>
    /\ raised_at' = {}

\* sys.exit(1) in main(): SystemExit is no Exception, so neither
\* run_monitoring nor the loop of start catches it and the process ends
sys_exit_1 ==
    /\ run_pc' = "dead"
    /\ sched_pc' = "exited"
    /\ exit_code' = 1

\* main() has been entered and has neither returned nor been left
run_in_progress == run_pc \notin {"idle", "returned", "dead", "aborted"}

\* the loop over the candidates goes on: to the next candidate of the source,
\* or to the next source
next_candidate ==
    IF art_idx < Len(articles)
    THEN run_pc' = "check_seen" /\ art_idx' = art_idx + 1 /\ UNCHANGED site_idx
    ELSE run_pc' = "next_source" /\ site_idx' = site_idx + 1 /\ UNCHANGED art_idx

\* a variant of the handler that leaves the loop over the sources
break_out_of_sources == Len(WEBSITES) + 1

\* continue: the loop over config.WEBSITES goes on with the next source
continue_with_next_source == site_idx + 1

\* a variant of the scheduler that starts a due job whatever the run is doing
previous_run_ignored == TRUE

\* run_pending calls run_monitoring, and so main(), in the loop's own thread:
\* the next job starts when the call has returned
previous_run_returned == run_pc = "idle"

\* a variant of the handler after which the candidates of the same source
\* are gone through again
source_raises_and_goes_on ==
    /\ run_faults < MaxFaults
    /\ run_faults' = run_faults + 1
    /\ raised_at' = raised_at \cup {site_idx}
    /\ run_pc' = IF articles = <<>> THEN "next_source" ELSE "check_seen"
    /\ site_idx' = site_idx

\* except Exception as e: logger.error(...); continue
source_raises ==
    /\ run_faults < MaxFaults
    /\ run_faults' = run_faults + 1
    /\ raised_at' = raised_at \cup {site_idx}
    /\ run_pc' = "next_source"
    /\ site_idx' = continue_with_next_source

\* ContentScheduler.start: is_running is set and the initial run begins;
\* run_scheduler.py starts the scheduler only with a valid interval
SchedulerStart ==
    /\ sched_pc = "init"
    /\ entry_point = "run_scheduler.py" => schedule_interval \in valid_intervals
    /\ is_running' = TRUE
    /\ sched_pc' = "initial_run"
    /\ begin_run
    /\ UNCHANGED <<runFrame, summarizer, model_outcome, verdict, summary, exit_code, due_jobs,
                   db_articles, run_faults, classified, summarized, run_failed, slept,
                   WEBSITES>>

\* run_scheduler.py, main: the interval is not one of valid_intervals;
\* the error is logged and sys.exit(1) ends the process
InvalidIntervalExit ==
    /\ sched_pc = "init"
    /\ entry_point = "run_scheduler.py"
    /\ schedule_interval \notin valid_intervals
    /\ sched_pc' = "exited"
    /\ exit_code' = 1
    /\ UNCHANGED <<runFrame, summarizer, model_outcome, verdict, summary, is_running, due_jobs,
                   run_pc, runs, site_idx, articles, art_idx, new_articles, db_articles,
                   run_faults, classified, summarized, seen_answer, fetched, raised_at,
                   run_failed, slept, WEBSITES>>

\* main() returns to run_monitoring, which returns to its caller
RunReturns ==
    /\ run_pc = "returned"
    /\ sched_pc \in {"initial_run", "run_pending"}
    /\ run_pc' = "idle"
    /\ sched_pc' = IF sched_pc = "initial_run" THEN "loop" ELSE "run_pending"
    /\ UNCHANGED <<runFrame, summarizer, model_outcome, verdict, summary, is_running,
                   exit_code, due_jobs, runs, site_idx, articles, art_idx, new_articles,
                   db_articles, run_faults, classified, summarized, seen_answer, fetched,
                   raised_at, run_failed, slept, WEBSITES>>

\* while self.is_running: schedule.run_pending() finds the jobs that are due
LoopCheck ==
    /\ sched_pc = "loop"
    /\ is_running
    /\ \E n \in 0..number_of_jobs(schedule_interval) :
        /\ runs + n <= MaxRuns
        /\ due_jobs' = n
    /\ sched_pc' = "run_pending"
    /\ slept' = 0
    /\ UNCHANGED <<runFrame, summarizer, model_outcome, verdict, summary, is_running,
                   exit_code, run_pc, runs, site_idx, articles, art_idx, new_articles,
                   db_articles, run_faults, classified, summarized, seen_answer, fetched,
                   raised_at, run_failed, WEBSITES>>

\* while self.is_running: the flag is down, start returns and the process ends
LoopExit ==
    /\ sched_pc = "loop"
    /\ ~is_running
    /\ sched_pc' = "exited"
    /\ exit_code' = 0
    /\ UNCHANGED <<runFrame, summarizer, model_outcome, verdict, summary, is_running, due_jobs,
                   run_pc, runs, site_idx, articles, art_idx, new_articles, db_articles,
                   run_faults, classified, summarized, seen_answer, fetched, raised_at,
                   run_failed, slept, WEBSITES>>

\* run_pending runs the next due job: run_monitoring calls main()
RunPendingJob ==
    /\ sched_pc = "run_pending"
    /\ previous_run_returned
    /\ due_jobs > 0
    /\ due_jobs' = due_jobs - 1
    /\ begin_run
    /\ UNCHANGED <<runFrame, summarizer, model_outcome, verdict, summary, sched_pc, is_running,
                   exit_code, db_articles, run_faults, classified, summarized, run_failed,
                   slept, WEBSITES>>

\* run_pending has run every due job; time.sleep(60), then the next iteration
Sleep ==
    /\ sched_pc = "run_pending"
    /\ run_pc = "idle"
    /\ due_jobs = 0
    /\ sched_pc' = "loop"
    /\ slept' = POLL_SECONDS
    /\ run_failed' = FALSE
    /\ UNCHANGED <<runFrame, summarizer, model_outcome, verdict, summary, is_running,
                   exit_code, due_jobs, run_pc, runs, site_idx, articles, art_idx,
                   new_articles, db_articles, run_faults, classified, summarized, seen_answer,
                   fetched, raised_at, WEBSITES>>

\* schedule.run_pending() itself raises: the handler of the loop logs it and
\* sleeps the cool-down, time.sleep(300), then the next iteration
LoopRaises ==
    /\ sched_pc = "run_pending"
    /\ run_pc = "idle"
    /\ run_faults < MaxFaults
    /\ run_faults' = run_faults + 1
    /\ due_jobs' = 0
    /\ sched_pc' = "loop"
    /\ slept' = COOL_DOWN_SECONDS
    /\ run_failed' = FALSE
    /\ UNCHANGED <<runFrame, summarizer, model_outcome, verdict, summary, is_running,
                   exit_code, run_pc, runs, site_idx, articles, art_idx, new_articles,
                   db_articles, classified, summarized, seen_answer, fetched, raised_at,
                   WEBSITES>>

\* SIGINT or SIGTERM arrives. Under run_scheduler.py signal_handler calls
\* sys.exit(0): SystemExit unwinds whatever is running and the process ends.
\* Under scheduler.py SIGINT raises KeyboardInterrupt where the process is:
\* in the loop the handler calls stop(), in the initial run it leaves start;
\* SIGTERM ends the process at once.
Signal ==
    /\ sched_pc \notin {"init", "exited"}
    /\ is_running
    /\ \E signum \in Signals :
        IF entry_point = "scheduler.py" /\ signum = "SIGINT" /\ sched_pc # "initial_run"
        THEN /\ is_running' = FALSE
             /\ sched_pc' = "loop"
             /\ UNCHANGED exit_code
        ELSE /\ sched_pc' = "exited"
             /\ exit_code' = IF entry_point = "scheduler.py" /\ signum = "SIGTERM"
                             THEN KILLED_BY_SIGTERM ELSE 0
             /\ UNCHANGED is_running
    /\ run_pc' = IF run_in_progress THEN "aborted" ELSE run_pc
    /\ UNCHANGED <<runFrame, summarizer, model_outcome, verdict, summary, due_jobs, runs,
                   site_idx, articles, art_idx, new_articles, db_articles, run_faults,
                   classified, summarized, seen_answer, fetched, raised_at, run_failed, slept,
                   WEBSITES>>

\* setup_logging() raises before main()'s try block: the exception leaves
\* main() and run_monitoring logs it and returns
RunLoggingRaises ==
    /\ run_pc = "config"
    /\ run_faults < MaxFaults
    /\ run_faults' = run_faults + 1
    /\ run_failed' = TRUE
    /\ run_pc' = "returned"
    /\ UNCHANGED <<runFrame, summarizer, model_outcome, verdict, summary, sched_pc, is_running,
                   exit_code, due_jobs, runs, site_idx, articles, art_idx, new_articles,
                   db_articles, classified, summarized, seen_answer, fetched, raised_at, slept,
                   WEBSITES>>

\* config = Config(): WEBSITES is parsed, and _validate_config raises ValueError
\* when it is empty
RunConfig ==
    /\ run_pc = "config"
    /\ WEBSITES' = parse_websites(websites_str, company_websites)
    /\ IF config_raises(WEBSITES')
       THEN sys_exit_1
       ELSE run_pc' = "components" /\ UNCHANGED <<sched_pc, exit_code>>
    /\ UNCHANGED <<runFrame, summarizer, model_outcome, verdict, summary, is_running, due_jobs,
                   runs, site_idx, articles, art_idx, new_articles, db_articles, run_faults,
                   classified, summarized, seen_answer, fetched, raised_at, run_failed, slept>>

\* the components are constructed; AIProcessor loads the model or, when the
\* load fails, sets self.summarizer = None
RunComponents ==
    /\ run_pc = "components"
    /\ summarizer' \in BOOLEAN
    /\ run_pc' = "next_source"
    /\ site_idx' = 1
    /\ UNCHANGED <<runFrame, model_outcome, verdict, summary, sched_pc, is_running, exit_code,
                   due_jobs, runs, articles, art_idx, new_articles, db_articles, run_faults,
                   classified, summarized, seen_answer, fetched, raised_at, run_failed, slept,
                   WEBSITES>>

\* the construction of a component raises (the database cannot be reached):
\* the outer handler of main() logs it and calls sys.exit(1)
RunComponentsRaise ==
    /\ run_pc = "components"
    /\ sys_exit_1
    /\ UNCHANGED <<runFrame, summarizer, model_outcome, verdict, summary, is_running, due_jobs,
                   runs, site_idx, articles, art_idx, new_articles, db_articles, run_faults,
                   classified, summarized, seen_answer, fetched, raised_at, run_failed, slept,
                   WEBSITES>>

\* for website_url in config.WEBSITES: scrape_articles returns the candidates
RunScrape ==
    /\ run_pc = "next_source"
    /\ site_idx <= Len(WEBSITES)
    /\ fetched' = Append(fetched, site_idx)
    /\ \E found \in ScrapeResults :
        /\ articles' = found
        /\ art_idx' = 1
        /\ run_pc' = IF found = <<>> THEN "next_source" ELSE "check_seen"
        /\ site_idx' = IF found = <<>> THEN site_idx + 1 ELSE site_idx
    /\ UNCHANGED <<runFrame, summarizer, model_outcome, verdict, summary, sched_pc, is_running,
                   exit_code, due_jobs, runs, new_articles, db_articles, run_faults,
                   classified, summarized, seen_answer, raised_at, run_failed, slept, WEBSITES>>

\* scrape_articles raises: the handler of the source logs it and the loop
\* goes on with the next source
RunScrapeRaises ==
    /\ run_pc = "next_source"
    /\ site_idx <= Len(WEBSITES)
    /\ fetched' = Append(fetched, site_idx)
    /\ source_raises
    /\ UNCHANGED <<runFrame, summarizer, model_outcome, verdict, summary, sched_pc, is_running,
                   exit_code, due_jobs, runs, articles, art_idx, new_articles, db_articles,
                   classified, summarized, seen_answer, run_failed, slept, WEBSITES>>

\* if not db.is_article_seen(article['url'])
RunCheckSeen ==
    /\ run_pc = "check_seen"
    /\ \E query_ok \in BOOLEAN :
        /\ query_ok \/ run_faults < MaxFaults
        /\ run_faults' = IF query_ok THEN run_faults ELSE run_faults + 1
        /\ seen_answer' = db_is_article_seen(db_articles, articles[art_idx], query_ok)
        /\ IF candidate_is_new(seen_answer')
           THEN run_pc' = "classify" /\ UNCHANGED <<site_idx, art_idx>>
           ELSE next_candidate
    /\ UNCHANGED <<runFrame, summarizer, model_outcome, verdict, summary, sched_pc, is_running,
                   exit_code, due_jobs, runs, articles, new_articles, db_articles, classified,
                   summarized, fetched, raised_at, run_failed, slept, WEBSITES>>

\* if ai_processor.is_genai_related(article['content'])
RunClassify ==
    /\ run_pc = "classify"
    /\ verdict' = is_genai_related(content_of(articles[art_idx]), 0, genai_keywords)
    /\ classified' = [classified EXCEPT ![articles[art_idx]] = @ + 1]
    /\ run_pc' = IF verdict' THEN "summarize" ELSE "save"
    /\ UNCHANGED <<runFrame, summarizer, model_outcome, summary, sched_pc, is_running,
                   exit_code, due_jobs, runs, site_idx, articles, art_idx, new_articles,
                   db_articles, run_faults, summarized, seen_answer, fetched, raised_at,
                   run_failed, slept, WEBSITES>>

\* summary = ai_processor.summarize_article(article['content']);
\* new_articles.append(article)
RunSummarize ==
    /\ run_pc = "summarize"
    /\ \E outcome \in RunModelOutcomes :
        /\ model_outcome' = IF summarizer THEN outcome ELSE NotCalled
        /\ summary' = summarize_article(content_of(articles[art_idx]), DEFAULT_MAX_LENGTH,
                                        summarizer, outcome, genai_keywords)
    /\ summarized' = [summarized EXCEPT ![articles[art_idx]] = @ + 1]
    /\ new_articles' = Append(new_articles, [url |-> articles[art_idx], summary |-> summary'])
    /\ run_pc' = "save"
    /\ UNCHANGED <<runFrame, summarizer, verdict, sched_pc, is_running, exit_code, due_jobs,
                   runs, site_idx, articles, art_idx, db_articles, run_faults, classified,
                   seen_answer, fetched, raised_at, run_failed, slept, WEBSITES>>

\* db.save_article(...): the row holds the summary for a relevant candidate
\* and no summary (None) otherwise; the returned flag is not looked at
RunSave ==
    /\ run_pc = "save"
    /\ \E statement_ok \in BOOLEAN :
        /\ statement_ok \/ run_faults < MaxFaults
        /\ run_faults' = IF statement_ok THEN run_faults ELSE run_faults + 1
        /\ db_articles' = db_save_article(db_articles, articles[art_idx],
                              [title |-> title_of(articles[art_idx]),
                               content |-> content_of(articles[art_idx]),
                               has_summary |-> verdict,
                               summary |-> IF verdict THEN summary ELSE <<>>,
                               is_genai_related |-> verdict],
                              statement_ok)
    /\ next_candidate
    /\ UNCHANGED <<runFrame, summarizer, model_outcome, verdict, summary, sched_pc, is_running,
                   exit_code, due_jobs, runs, articles, new_articles, classified, summarized,
                   seen_answer, fetched, raised_at, run_failed, slept, WEBSITES>>

\* an exception is raised while a candidate is examined, classified,
\* summarized or stored: the handler of the source logs it and the loop goes
\* on with the next source
RunArticleRaises ==
    /\ run_pc \in {"check_seen", "classify", "summarize", "save"}
    /\ source_raises
    /\ UNCHANGED <<runFrame, summarizer, model_outcome, verdict, summary, sched_pc, is_running,
                   exit_code, due_jobs, runs, articles, art_idx, new_articles, db_articles,
                   classified, summarized, seen_answer, fetched, run_failed, slept, WEBSITES>>

\* web_publisher.publish_articles(new_articles) returns and so does main()
RunPublish ==
    /\ run_pc = "next_source"
    /\ site_idx > Len(WEBSITES)
    /\ run_pc' = "returned"
    /\ UNCHANGED <<runFrame, summarizer, model_outcome, verdict, summary, sched_pc, is_running,
                   exit_code, due_jobs, runs, site_idx, articles, art_idx, new_articles,
                   db_articles, run_faults, classified, summarized, seen_answer, fetched,
                   raised_at, run_failed, slept, WEBSITES>>

\* publish_articles raises: the outer handler of main() logs it and calls
\* sys.exit(1)
RunPublishRaises ==
    /\ run_pc = "next_source"
    /\ site_idx > Len(WEBSITES)
    /\ sys_exit_1
    /\ UNCHANGED <<runFrame, summarizer, model_outcome, verdict, summary, is_running, due_jobs,
                   runs, site_idx, articles, art_idx, new_articles, db_articles, run_faults,
                   classified, summarized, seen_answer, fetched, raised_at, run_failed, slept,
                   WEBSITES>>

NextPipeline ==
    \/ SchedulerStart
    \/ InvalidIntervalExit
    \/ RunReturns
    \/ LoopCheck
    \/ LoopExit
    \/ RunPendingJob
    \/ Sleep
    \/ LoopRaises
    \/ Signal
    \/ RunLoggingRaises
    \/ RunConfig
    \/ RunComponents
    \/ RunComponentsRaise
    \/ RunScrape
    \/ RunScrapeRaises
    \/ RunCheckSeen
    \/ RunClassify
    \/ RunSummarize
    \/ RunSave
    \/ RunArticleRaises
    \/ RunPublish
    \/ RunPublishRaises

SpecPipeline == InitPipeline /\ [][NextPipeline]_vars

-----------------------------------------------------------------------------
(* Configuration runs: the start of the first run, from the value of       *)
(* WEBSITES in the environment to the fetches of the configured sources    *)

InitConfig ==
    /\ TextIdle
    /\ LedgerIdle
    /\ WEBSITES = <<>>
    /\ websites_str \in EnvWebsites
    /\ company_websites \in CompanyWebsites
    /\ worker_articles = <<>>
    /\ worker_idx = <<>>
    /\ worker_pc = <<>>
    /\ atomic_check_and_set = FALSE
    /\ retry = NoRetry
    /\ sched_pc = "init"
    /\ is_running = FALSE
    /\ exit_code = -1
    /\ due_jobs = 0
    /\ run_pc = "idle"
    /\ runs = 0
    /\ site_idx = 0
    /\ articles = <<>>
    /\ art_idx = 0
    /\ new_articles = <<>>
    /\ db_articles = <<>>
    /\ classified = [u \in ArticleUrls |-> 0]
    /\ summarized = [u \in ArticleUrls |-> 0]
    /\ run_faults = 0
    /\ seen_answer = FALSE
    /\ schedule_interval = "daily"
    /\ entry_point = "scheduler.py"
    /\ fetched = <<>>
    /\ raised_at = {}
    /\ run_failed = FALSE
    /\ slept = 0
    /\ monitoring_stats = <<>>

NextConfig ==
    \/ SchedulerStart
    \/ RunConfig
    \/ RunComponents
    \/ RunComponentsRaise
    \/ RunScrape

SpecConfig == InitConfig /\ [][NextConfig]_vars

-----------------------------------------------------------------------------
(* Concurrent workers: two workers go through main()'s sequence for a      *)
(* candidate (seen-check, classification, save) on one article table       *)

Workers == {"w1", "w2"}

\* the candidates a worker goes through
WorkerCandidates == {<<"a1">>, <<"a1", "a2">>, <<"a2", "a1">>}

InitWorkers ==
    /\ TextIdle
    /\ LedgerIdle
    /\ WEBSITES = <<>>
    /\ websites_str = <<>>
    /\ company_websites = NoSimpleDatabase
    /\ schedule_interval = "daily"
    /\ entry_point = "scheduler.py"
    /\ sched_pc = "init"
    /\ is_running = FALSE
    /\ exit_code = -1
    /\ due_jobs = 0
    /\ run_pc = "idle"
    /\ runs = 0
    /\ site_idx = 0
    /\ articles = <<>>
    /\ art_idx = 0
    /\ new_articles = <<>>
    /\ run_faults = 0
    /\ seen_answer = FALSE
    /\ fetched = <<>>
    /\ raised_at = {}
    /\ run_failed = FALSE
    /\ slept = 0
    /\ monitoring_stats = <<>>
    /\ db_articles = <<>>
    /\ classified = [u \in ArticleUrls |-> 0]
    /\ summarized = [u \in ArticleUrls |-> 0]
    /\ worker_articles \in [Workers -> WorkerCandidates]
    /\ worker_idx = [w \in Workers |-> 1]
    /\ worker_pc = [w \in Workers |-> "check_seen"]
    /\ atomic_check_and_set \in BOOLEAN
    /\ retry = NoRetry

\* what the workers leave alone
workersFrame == <<textVars, ledgerVars, WEBSITES, websites_str, company_websites,
                  schedule_interval, entry_point, sched_pc, is_running, exit_code, due_jobs,
                  run_pc, runs, site_idx, articles, art_idx, new_articles, run_faults,
                  seen_answer, fetched, raised_at, run_failed, slept, monitoring_stats,
                  worker_articles, atomic_check_and_set>>

\* the candidate worker w is at
worker_url(w) == worker_articles[w][worker_idx[w]]

\* the row main() hands to save_article for a candidate
article_row(url, is_related, summary_text) ==
    [title |-> title_of(url), content |-> content_of(url), has_summary |-> is_related,
     summary |-> IF is_related THEN summary_text ELSE <<>>, is_genai_related |-> is_related]

\* the worker goes on with its next candidate, or has none left
worker_next(w) ==
    IF worker_idx[w] < Len(worker_articles[w])
    THEN /\ worker_idx' = [worker_idx EXCEPT ![w] = @ + 1]
         /\ worker_pc' = [worker_pc EXCEPT ![w] = "check_seen"]
    ELSE /\ worker_pc' = [worker_pc EXCEPT ![w] = "done"]
         /\ UNCHANGED worker_idx

\* if not db.is_article_seen(article['url']); with the atomic check-and-set
\* the same step records the URL of an unseen candidate
WorkerCheckSeen(w) ==
    /\ worker_pc[w] = "check_seen"
    /\ IF candidate_is_new(db_is_article_seen(db_articles, worker_url(w), TRUE))
       THEN /\ worker_pc' = [worker_pc EXCEPT ![w] = "classify"]
            /\ db_articles' = IF atomic_check_and_set
                              THEN db_save_article(db_articles, worker_url(w),
                                                   article_row(worker_url(w), FALSE, <<>>), TRUE)
                              ELSE db_articles
            /\ UNCHANGED worker_idx
       ELSE /\ worker_next(w)
            /\ UNCHANGED db_articles
    /\ UNCHANGED <<workersFrame, classified, summarized, retry>>

\* ai_processor.is_genai_related(article['content']) and, for a relevant
\* candidate, ai_processor.summarize_article(article['content'])
WorkerClassify(w) ==
    /\ worker_pc[w] = "classify"
    /\ classified' = [classified EXCEPT ![worker_url(w)] = @ + 1]
    /\ summarized' = IF is_genai_related(content_of(worker_url(w)), 0, genai_keywords)
                     THEN [summarized EXCEPT ![worker_url(w)] = @ + 1]
                     ELSE summarized
    /\ worker_pc' = [worker_pc EXCEPT ![w] = "save"]
    /\ UNCHANGED <<workersFrame, db_articles, worker_idx, retry>>

\* db.save_article(...)
WorkerSave(w) ==
    /\ worker_pc[w] = "save"
    /\ db_articles' = db_save_article(db_articles, worker_url(w),
                          article_row(worker_url(w),
                              is_genai_related(content_of(worker_url(w)), 0, genai_keywords),
                              summarize_article(content_of(worker_url(w)), DEFAULT_MAX_LENGTH,
                                                summarizer, NotCalled, genai_keywords)),
                          TRUE)
    /\ worker_next(w)
    /\ UNCHANGED <<workersFrame, classified, summarized, retry>>

NextWorkers ==
    \E w \in Workers :
        \/ WorkerCheckSeen(w)
        \/ WorkerClassify(w)
        \/ WorkerSave(w)

SpecWorkers == InitWorkers /\ [][NextWorkers]_vars

-----------------------------------------------------------------------------
(* Retry runs (utils.py, retry_on_failure): one call of the helper with a  *)
(* func that raises or returns, as it likes, on every call                 *)

InitRetry ==
    /\ TextIdle
    /\ LedgerIdle
    /\ \E max_retries \in 0..MaxRetries : \E delay \in 1..MaxDelay :
          retry = [pc |-> "loop", max_retries |-> max_retries, delay |-> delay, attempt |-> 0,
                   outcomes |-> <<>>, waits |-> <<>>, result |-> None, raised |-> None]
    /\ WEBSITES = <<>>
    /\ websites_str = <<>>
    /\ company_websites = NoSimpleDatabase
    /\ schedule_interval = "daily"
    /\ entry_point = "scheduler.py"
    /\ sched_pc = "init"
    /\ is_running = FALSE
    /\ exit_code = -1
    /\ due_jobs = 0
    /\ run_pc = "idle"
    /\ runs = 0
    /\ site_idx = 0
    /\ articles = <<>>
    /\ art_idx = 0
    /\ new_articles = <<>>
    /\ run_faults = 0
    /\ seen_answer = FALSE
    /\ fetched = <<>>
    /\ raised_at = {}
    /\ run_failed = FALSE
    /\ slept = 0
    /\ monitoring_stats = <<>>
    /\ db_articles = <<>>
    /\ classified = <<>>
    /\ summarized = <<>>
    /\ worker_articles = <<>>
    /\ worker_idx = <<>>
    /\ worker_pc = <<>>
    /\ atomic_check_and_set = FALSE

\* for attempt in range(max_retries): func is called; its value is returned,
\* or its exception is raised again when this was the last attempt, or the
\* wait is slept and the loop goes on
RetryAttempt ==
    /\ retry.pc = "loop"
    /\ retry.attempt < retry.max_retries
    /\ \E outcome \in FuncOutcomes :
        retry' = IF ~outcome.raises
                 THEN [retry EXCEPT !.outcomes = Append(@, outcome), !.pc = "returned",
                                    !.result = outcome.value]
                 ELSE IF retry.attempt = retry.max_retries - 1
                 THEN [retry EXCEPT !.outcomes = Append(@, outcome), !.pc = "raised",
                                    !.raised = outcome.value]
                 ELSE [retry EXCEPT !.outcomes = Append(@, outcome),
                                    !.waits = Append(@, wait_time(retry.delay, retry.attempt)),
                                    !.attempt = @ + 1]
    /\ UNCHANGED <<workersFrame, db_articles, classified, summarized, worker_idx, worker_pc>>

\* range(max_retries) is used up without a return or a raise (max_retries
\* is 0): the function falls off its end and returns None
RetryFallsThrough ==
    /\ retry.pc = "loop"
    /\ retry.attempt >= retry.max_retries
    /\ retry' = [retry EXCEPT !.pc = "returned", !.result = None]
    /\ UNCHANGED <<workersFrame, db_articles, classified, summarized, worker_idx, worker_pc>>

NextRetry ==
    \/ RetryAttempt
    \/ RetryFallsThrough

SpecRetry == InitRetry /\ [][NextRetry]_vars

-----------------------------------------------------------------------------
(* Properties of the scheduler and its monitoring runs (SpecPipeline)      *)

\* C1: over any sequence of monitoring runs, runs in which the seen-check or
\* the persistence of an article fails included, every article URL is
\* classified at most once and summarized at most once.
C1_ProcessedAtMostOnce ==
    \A u \in ArticleUrls : classified[u] <= 1 /\ summarized[u] <= 1

C3_RunFailureKeepsScheduler ==
    ~(sched_pc = "exited" /\ exit_code = 1 /\ run_pc = "dead")

-----------------------------------------------------------------------------
(* Properties of the seen-article ledger (SpecLedger)                      *)

\* C4: at every instant, a crash in the middle of a write included, the
\* canonical ledger file is either as it was before the write or the complete
\* new snapshot, and when it exists it parses.
C4_CanonicalFileComplete ==
    /\ files["storage_file"].exists => ~json_load_raises(files["storage_file"].text)
    /\ \/ files["storage_file"] = file_before_save
       \/ files["storage_file"] = File(saving_text)

\* C4 witness: the process died in the middle of json.dump, the temporary
\* file holds a part of the snapshot that does not parse, and the canonical
\* file is the prior version.
C4_Witness ==
    /\ ledger_pc = "crashed"
    /\ files[temp_file].exists
    /\ files[temp_file].text # <<>>
    /\ Len(files[temp_file].text) < Len(saving_text)
    /\ json_load_raises(files[temp_file].text)
    /\ files["storage_file"].exists
    /\ files["storage_file"] = file_before_save

\* C5: every recorded seen-count is at least 1, and mark_article_seen on a
\* URL makes the URL seen with count 1 when it was absent and with the
\* previous count plus 1 when it was present.
C5_SeenCountCounts ==
    /\ [](\A u \in DOMAIN seen_articles.articles : seen_articles.articles[u].seen_count >= 1)
    /\ [][\A url \in Urls : \A title \in Titles :
            MarkSeen(url, title)
            => /\ is_article_seen(seen_articles', url)
               /\ seen_articles'.articles[url].seen_count =
                     IF is_article_seen(seen_articles, url)
                     THEN seen_articles.articles[url].seen_count + 1
                     ELSE 1
               /\ \A u \in DOMAIN seen_articles.articles \ {url} :
                     /\ u \in DOMAIN seen_articles'.articles
                     /\ seen_articles'.articles[u] = seen_articles.articles[u]]_vars

\* C5 witness: a URL has been marked a second time, its count is 2, and the
\* snapshot with that count has reached the canonical file.
C5_Witness ==
    /\ ledger_pc = "idle"
    /\ "u1" \in DOMAIN seen_articles.articles
    /\ seen_articles.articles["u1"].seen_count = 2
    /\ files["storage_file"].exists
    /\ ~json_load_raises(files["storage_file"].text)
    /\ json_load(files["storage_file"].text) = seen_articles

\* C6: mark_article_seen on a URL that is already in the ledger changes only
\* that entry's seen-count: its first-seen instant and its title stay.
C6_FirstSeenKept ==
    [][\A url \in Urls : \A title \in Titles :
         (MarkSeen(url, title) /\ is_article_seen(seen_articles, url))
         => /\ seen_articles'.articles[url].first_seen = seen_articles.articles[url].first_seen
            /\ seen_articles'.articles[url].title = seen_articles.articles[url].title]_vars

-----------------------------------------------------------------------------
(* Properties of the summarizer (SpecSummarizer)                           *)

\* the model could not be used: it was not loaded, or the call of it raised
model_failed == ~summarizer \/ model_outcome.raises

\* the call of the model raised, so the extractive fallback produced the result
fallback_ran == called = "summarize_article" /\ model_is_called /\ model_outcome.raises

\* C7: whenever the model is unavailable or raises, the result for a
\* non-empty text is the extractive fallback's summary of that text.
C7_FailureUsesFallback ==
    (called = "summarize_article" /\ content # <<>> /\ model_failed)
    => summary = generate_extractive_summary(cap_words(content), max_length, genai_keywords)

\* C8 as stated: when the model raises on every call, the result for a
\* non-empty text is non-empty and ends with "." or "...".
C8_AlwaysTerminated ==
    fallback_ran
    => /\ summary # <<>>
       /\ EndsWith(summary, PERIOD) \/ EndsWith(summary, ELLIPSIS)

\* C8 amended: when the model raises on every call, the result for a
\* non-empty text is non-empty; it ends with "." or "..." when the text has
\* more than two sentences or is longer than max_length, and it is the text
\* itself otherwise.
C8_TerminatedOrUnchanged ==
    fallback_ran
    => /\ summary # <<>>
       /\ IF \/ Len(split(cap_words(content), SENTENCE_SEPARATOR)) > 2
             \/ Len(cap_words(content)) > max_length
          THEN EndsWith(summary, PERIOD) \/ EndsWith(summary, ELLIPSIS)
          ELSE summary = cap_words(content)

\* C8 witness: the model raised on a text of at most two sentences that is
\* longer than max_length; the result is the cut text and the ellipsis.
C8_Witness ==
    /\ fallback_ran
    /\ Len(split(content, SENTENCE_SEPARATOR)) <= 2
    /\ Len(content) > max_length
    /\ max_length > 0
    /\ summary = Prefix(content, max_length) \o ELLIPSIS

\* C9: the extractive fallback's result is never longer than max_length plus
\* the allowance for the ellipsis or the period, however many sentences are
\* selected.
C9_LengthBounded ==
    fallback_ran => Len(summary) <= max_length + Len(ELLIPSIS)

-----------------------------------------------------------------------------
(* Properties of the classifier (SpecClassifier)                           *)

\* the counts the decision of is_genai_related rests on
km_of_content == keyword_matches(str_lower(content), genai_keywords)

pm_of_content == pattern_matches(str_lower(content))

cm_of_content == context_matches(str_lower(content))

wc_of_content == word_count(content, filler)

-----------------------------------------------------------------------------
(* Properties of the ledger's failed writes and of cleanup                 *)
(* (SpecLedger, SpecCleanup)                                               *)

\* the canonical file does not hold the ledger's entry for url
not_persisted(url) ==
    \/ ~files["storage_file"].exists
    \/ json_load_raises(files["storage_file"].text)
    \/ url \notin DOMAIN json_load(files["storage_file"].text).articles

\* C15: when a step of the ledger's write fails during mark_article_seen, the
\* call returns without an exception and the in-memory ledger stays as it
\* was, new entry included; an entry stays seen in the process until a
\* cleanup removes it; and every write that succeeds puts the whole
\* in-memory ledger, earlier unwritten entries included, into the canonical
\* file.
C15_FailedWriteKeepsMemory ==
    /\ [][SaveFail => (ledger_pc' = "idle" /\ seen_articles' = seen_articles)]_vars
    /\ [][\A u \in Urls :
            (is_article_seen(seen_articles, u) /\ ledger_pc' # "crashed"
             /\ ~(\E days_old \in DaysOld : Cleanup(days_old)))
            => is_article_seen(seen_articles', u)]_vars
    /\ [][SaveRename
          => /\ ~json_load_raises(files'["storage_file"].text)
             /\ json_load(files'["storage_file"].text) = seen_articles']_vars

\* C15 witness: the write of one entry failed and the call returned; the
\* process has marked the other URL, and the write in progress has put both
\* entries, neither of them in the canonical file yet, into the temporary
\* file that the rename is about to install.
C15_Witness ==
    /\ ledger_pc = "rename"
    /\ faults = 1
    /\ DOMAIN seen_articles.articles = {"u1", "u2"}
    /\ not_persisted("u1")
    /\ not_persisted("u2")
    /\ ~json_load_raises(files[temp_file].text)
    /\ json_load(files[temp_file].text) = seen_articles

\* the entries cleanup(days_old) has to remove: first seen before
\* now - days_old, or with a first-seen text that does not parse
stale_urls(days_old) ==
    {u \in DOMAIN seen_articles.articles :
        \/ fromisoformat_raises(seen_articles.articles[u].first_seen)
        \/ /\ ~fromisoformat_raises(seen_articles.articles[u].first_seen)
           /\ fromisoformat(seen_articles.articles[u].first_seen) + days_old * TICKS_PER_DAY < now}

\* C16: cleanup_old_articles(days_old) removes exactly the entries first
\* seen before now - days_old and the entries whose first-seen text cannot
\* be parsed, and keeps every other entry with its title, first-seen and
\* seen-count; when there is such an entry the call does remove it.
C16_CleanupRemovesExactlyStale ==
    /\ [][\A days_old \in DaysOld :
            Cleanup(days_old)
            => /\ DOMAIN seen_articles'.articles =
                     DOMAIN seen_articles.articles \ stale_urls(days_old)
               /\ \A u \in DOMAIN seen_articles'.articles :
                     seen_articles'.articles[u] = seen_articles.articles[u]]_vars
    /\ [](\A days_old \in DaysOld :
            (ledger_pc = "idle" /\ stale_urls(days_old) # {})
            => ENABLED <<Cleanup(days_old)>>_seen_articles)

\* C16 witness: a cleanup has removed the entry of u1, whose first-seen text
\* does not parse, and kept the entry of u2, first seen exactly at the cutoff.
C16_Witness ==
    /\ ledger_pc = "open_temp"
    /\ now = TICKS_PER_DAY
    /\ ~not_persisted("u1")
    /\ json_load(files["storage_file"].text).articles["u1"].first_seen = INVALID_TIMESTAMP
    /\ DOMAIN seen_articles.articles = {"u2"}
    /\ seen_articles.articles["u2"].first_seen = isoformat(0)

\* C17 as stated: cleanup(0) leaves the ledger empty whatever it held, and
\* cleanup(10000) removes no entry.
C17_CleanupZeroEmpties ==
    [][/\ Cleanup(0) => seen_articles'.articles = <<>>
       /\ Cleanup(10000) => seen_articles'.articles = seen_articles.articles]_vars

\* C17 amended: cleanup(0) removes every entry first seen before the instant
\* of the cleanup and keeps the entries first seen at that very instant;
\* cleanup(10000) removes no entry whose first-seen text is valid and recent.
C17_CleanupZeroKeepsSameInstant ==
    /\ [][Cleanup(0)
          => DOMAIN seen_articles'.articles =
                {u \in DOMAIN seen_articles.articles :
                    /\ ~fromisoformat_raises(seen_articles.articles[u].first_seen)
                    /\ fromisoformat(seen_articles.articles[u].first_seen) >= now}]_vars
    /\ [][Cleanup(10000)
          => \A u \in DOMAIN seen_articles.articles :
                ~fromisoformat_raises(seen_articles.articles[u].first_seen)
                => /\ u \in DOMAIN seen_articles'.articles
                   /\ seen_articles'.articles[u] = seen_articles.articles[u]]_vars
    /\ [](\A u \in DOMAIN seen_articles.articles :
            (ledger_pc = "idle" /\ fromisoformat(seen_articles.articles[u].first_seen) < now)
            => ENABLED <<Cleanup(0)>>_seen_articles)

\* C17 witness: cleanup(0) has run at the instant at which u2 was marked
\* seen: it removed the older entry of u1 and kept the entry of u2.
C17_Witness ==
    /\ ledger_pc = "open_temp"
    /\ ~not_persisted("u1")
    /\ ~not_persisted("u2")
    /\ DOMAIN seen_articles.articles = {"u2"}
    /\ seen_articles.articles["u2"].first_seen = isoformat(now)

-----------------------------------------------------------------------------
(* Properties of the run's loop over the sources, of the scheduler's loop  *)
(* and of its entry points (SpecPipeline)                                  *)

\* the sources 1..n, in configuration order
sources_up_to(n) == [i \in 1..n |-> i]

\* C11: when fetching or processing a source raises, the run goes on with
\* the next configured source: the sources are fetched one after the other
\* in configuration order, the next one can always be fetched, and a run
\* that has entered the loop reaches its end only with every configured
\* source fetched.
C11_LaterSourcesStillFetched ==
    /\ [][(RunScrapeRaises \/ RunArticleRaises)
          => (run_pc' = "next_source" /\ site_idx' = site_idx + 1)]_vars
    /\ [](run_in_progress /\ site_idx > 0
          => fetched = sources_up_to(IF run_pc = "next_source" THEN site_idx - 1 ELSE site_idx))
    /\ []((run_pc = "next_source" /\ site_idx <= Len(WEBSITES)) => ENABLED RunScrape)
    /\ []((run_pc = "returned" /\ site_idx > 0) => fetched = sources_up_to(Len(WEBSITES)))

\* C11 witness: the first source raised and the run has ended with the
\* second source fetched after it.
C11_Witness ==
    /\ run_pc = "returned"
    /\ Len(WEBSITES) = 2
    /\ raised_at = {1}
    /\ fetched = <<1, 2>>

\* C12: a termination signal only sets the stop flag: a monitoring run that
\* is in progress when the signal arrives is never cut short.
C12_SignalLetsRunFinish ==
    run_pc # "aborted"

\* C13: after a monitoring run from which an exception escaped, the sleep
\* the loop takes next is the cool-down of 300 s, not the poll of 60 s.
C13_CoolDownAfterFailedRun ==
    [][(run_failed /\ slept' # slept /\ slept' # 0) => slept' = COOL_DOWN_SECONDS]_vars

\* C14: a scheduler started with a cadence that is none of the six valid
\* ones, through any entry point, never ends before it has started its
\* initial run.
C14_UnknownIntervalRuns ==
    schedule_interval \notin valid_intervals => ~(sched_pc = "exited" /\ runs = 0)

\* C18: at most one monitoring run executes at any time: a run begins only
\* when the previous one has returned, and while a run executes the
\* scheduler is inside the call that started it.
C18_OneRunAtATime ==
    /\ [][runs' # runs => (runs' = runs + 1 /\ run_pc = "idle" /\ run_pc' = "config")]_vars
    /\ [](run_in_progress => sched_pc \in {"initial_run", "run_pending"})

\* C18 witness: the two twice_daily jobs are due together; the first of them
\* is executing and the second waits for it.
C18_Witness ==
    /\ schedule_interval = "twice_daily"
    /\ sched_pc = "run_pending"
    /\ due_jobs = 1
    /\ runs = 2
    /\ run_pc = "classify"

\* C19: when save_article succeeds for a candidate that was not seen, its
\* URL is in the article table, the row's relevant flag is the classifier's
\* verdict and the row holds a summary exactly when the verdict is true, the
\* summary being the one the summarizer returned for it; a URL enters the
\* table only by that step, after the classifier and, for a relevant
\* candidate, the summarizer have run for it.
C19_StoredRecordMatchesVerdict ==
    /\ [][(RunSave /\ run_faults' = run_faults)
          => LET url == articles[art_idx]
             IN  /\ url \in DOMAIN db_articles'
                 /\ db_articles'[url].is_genai_related = verdict
                 /\ db_articles'[url].has_summary = verdict
                 /\ verdict => /\ db_articles'[url].summary = summary
                               /\ new_articles[Len(new_articles)] =
                                     [url |-> url, summary |-> summary]]_vars
    /\ [][\A url \in ArticleUrls :
            (url \notin DOMAIN db_articles /\ url \in DOMAIN db_articles')
            => /\ RunSave
               /\ url = articles[art_idx]
               /\ classified[url] >= 1
               /\ verdict => summarized[url] >= 1]_vars

\* C19 witness: a relevant and a non-relevant candidate have been processed
\* without error: the first is stored with the flag and its summary, the
\* second without either.
C19_Witness ==
    /\ run_faults = 0
    /\ DOMAIN db_articles = {"a1", "a2"}
    /\ db_articles["a1"].is_genai_related
    /\ db_articles["a1"].has_summary
    /\ db_articles["a1"].summary # <<>>
    /\ ~db_articles["a2"].is_genai_related
    /\ ~db_articles["a2"].has_summary
    /\ classified = [u \in ArticleUrls |-> 1]
    /\ summarized = [u \in ArticleUrls |-> IF u = "a1" THEN 1 ELSE 0]

\* C20: every monitoring run that reaches its end has reported its totals
\* to the monitoring_stats table, once per run.
C20_StatsReportedOncePerRun ==
    (run_pc = "returned" /\ site_idx > Len(WEBSITES))
    => /\ Len(monitoring_stats) \in 1..runs
       /\ runs = 1 => Len(monitoring_stats) = 1

-----------------------------------------------------------------------------
(* Properties of the extractive fallback, part two (SpecSummarizer)        *)

\* the sentences of the text the fallback works on
sentences_of_content == split(content, SENTENCE_SEPARATOR)

\* the sentences the claim has taken from a list of sentences: score2 is
\* twice the score (one for every keyword the sentence contains, a half for
\* the first three), rank the place in descending score with equal scores
\* in original order, total the running total of the sentence lengths in
\* that order, taken the number of sentences before the first misfit
claimed_parts(sentences, keywords, limit) ==
    LET n      == Len(sentences)
        score2 == [i \in 1..n |->
                     2 * Cardinality({k \in DOMAIN keywords :
                                         Contains(str_lower(sentences[i]), keywords[k])})
                     + (IF i <= 3 THEN 1 ELSE 0)]
        rank   == [i \in 1..n |->
                     1 + Cardinality({j \in 1..n :
                                         \/ score2[j] > score2[i]
                                         \/ score2[j] = score2[i] /\ j < i})]
        order  == [k \in 1..n |-> CHOOSE i \in 1..n : rank[i] = k]
        total[k \in 0..n] ==
            IF k = 0 THEN 0 ELSE total[k - 1] + Len(sentences[order[k]])
        taken  == CHOOSE m \in 0..n :
                     /\ \A k \in 1..m : total[k] <= limit
                     /\ m < n => total[m + 1] > limit
    IN  [k \in 1..taken |-> sentences[order[k]]]

\* C24: for a text of more than two sentences the fallback's result is built
\* from the sentences taken in descending score (keywords contained, plus a
\* half for the first three), equal scores in original order, up to and not
\* including the first sentence that would take the total of the sentence
\* lengths above max_length; no later sentence is added.
C24_SelectionByScoreStopsAtFirstMisfit ==
    (fallback_ran /\ Len(sentences_of_content) > 2)
    => LET parts  == claimed_parts(sentences_of_content, genai_keywords, max_length)
           joined == Join(parts, SENTENCE_SEPARATOR)
       IN  summary = IF joined = <<>> THEN Prefix(content, max_length) \o ELLIPSIS
                     ELSE IF EndsWith(joined, PERIOD) THEN joined
                     ELSE joined \o PERIOD

\* C24 witness: "ai. xxx. x" with max_length 3: "ai" is taken, "xxx" would
\* exceed the limit and ends the selection, and "x", which would have
\* fitted, is not added.
C24_Witness ==
    /\ fallback_ran
    /\ sentences_of_content = << <<"a", "i">>, <<"x", "x", "x">>, <<"x">> >>
    /\ max_length = 3
    /\ summary = <<"a", "i", ".">>

\* C25: for a text of at most two sentences the fallback returns the text
\* itself when it is not longer than max_length, and otherwise its first
\* max_length characters followed by "...".
C25_ShortTextReturnedOrCut ==
    (fallback_ran /\ Len(sentences_of_content) <= 2)
    => summary = IF Len(content) <= max_length THEN content
                 ELSE SubSeq(content, 1, max_length) \o ELLIPSIS

\* C25 witness: a text of two sentences that fits is returned as it is.
C25_Witness ==
    /\ fallback_ran
    /\ Len(sentences_of_content) = 2
    /\ Len(content) <= max_length
    /\ max_length < DEFAULT_MAX_LENGTH
    /\ summary = content

-----------------------------------------------------------------------------
(* Properties of the ledger's timestamps (SpecLedger)                      *)

\* a call that changes the mapping of URLs: mark_article_seen, or a
\* cleanup_old_articles that removes at least one entry
mapping_changes ==
    \/ \E url \in Urls : \E title \in Titles : MarkSeen(url, title)
    \/ \E days_old \in DaysOld :
          Cleanup(days_old) /\ seen_articles'.articles # seen_articles.articles

\* C22: every call that changes the mapping sets last_updated to the time of
\* the call and leaves created_at as it was; within a process last_updated
\* never decreases, the last_updated of the stored snapshot never decreases,
\* and last_updated is never before created_at.
C22_LastUpdatedFollowsChanges ==
    /\ [][mapping_changes
          => /\ seen_articles'.last_updated = isoformat(now)
             /\ seen_articles'.created_at = seen_articles.created_at]_vars
    /\ [][(ledger_pc # "crashed" /\ ledger_pc' # "crashed")
          => fromisoformat(seen_articles'.last_updated)
                >= fromisoformat(seen_articles.last_updated)]_vars
    /\ [][(files["storage_file"].exists /\ files'["storage_file"].exists)
          => fromisoformat(json_load(files'["storage_file"].text).last_updated)
                >= fromisoformat(json_load(files["storage_file"].text).last_updated)]_vars
    /\ [](ledger_pc # "crashed"
          => fromisoformat(seen_articles.created_at) <= fromisoformat(seen_articles.last_updated))
    /\ [](ledger_pc = "idle" /\ urls_to_remove(seen_articles.articles, 0, now) # {}
          => ENABLED <<Cleanup(0)>>_seen_articles)

\* C22 witness: a ledger created at time 0 whose only entry a cleanup at
\* time 2 has removed: the stored snapshot is empty, last updated at 2 and
\* created at 0.
C22_Witness ==
    /\ ledger_pc = "idle"
    /\ now = 2
    /\ seen_articles.articles = <<>>
    /\ seen_articles.created_at = isoformat(0)
    /\ seen_articles.last_updated = isoformat(2)
    /\ files["storage_file"].text = json_dump(seen_articles)

-----------------------------------------------------------------------------
(* Properties of saving and loading (SpecStartup)                          *)

\* the snapshot a new ArticleStorage would load from the canonical file
stored_snapshot == load_seen_articles(files["storage_file"], now)

\* C23: the snapshot a completed write has installed loads back with the
\* creation time and the mapping that were saved, every entry with its
\* title, first_seen and seen_count; a new process that opens the store
\* holds exactly what the file holds.
C23_SaveLoadRoundTrip ==
    /\ [][SaveRename
          => LET loaded == load_seen_articles(files'["storage_file"], now')
             IN  /\ loaded.created_at = seen_articles.created_at
                 /\ DOMAIN loaded.articles = DOMAIN seen_articles.articles
                 /\ \A u \in DOMAIN loaded.articles :
                       /\ loaded.articles[u].title = seen_articles.articles[u].title
                       /\ loaded.articles[u].first_seen = seen_articles.articles[u].first_seen
                       /\ loaded.articles[u].seen_count = seen_articles.articles[u].seen_count]_vars
    /\ [][(Restart /\ files["storage_file"].exists /\ ~json_load_raises(files["storage_file"].text))
          => json_dump(seen_articles') = files["storage_file"].text]_vars

\* C23 witness: a process created the ledger at time 1, marked u2 twice
\* without a title and u1 with one, and ended; the process that followed has
\* loaded the same snapshot.
C23_Witness ==
    /\ ledger_pc = "idle"
    /\ faults = 1
    /\ files["temp_file"] = NoFile
    /\ seen_articles.created_at = isoformat(1)
    /\ DOMAIN seen_articles.articles = {"u1", "u2"}
    /\ seen_articles.articles["u2"] = [title |-> None, first_seen |-> isoformat(2), seen_count |-> 2]
    /\ seen_articles.articles["u1"].title = "title"
    /\ seen_articles = stored_snapshot

\* C29: a process that finds a store it cannot parse starts with an empty
\* mapping and fresh timestamps; the write of its first mark_article_seen
\* can go ahead and installs, over the unreadable store, a snapshot whose
\* entries are those marked since that start-up.
C29_UnreadableStoreStartsEmpty ==
    /\ [][(Restart /\ files["storage_file"].exists /\ json_load_raises(files["storage_file"].text))
          => seen_articles' = new_storage(now)]_vars
    /\ [](ledger_pc = "idle" /\ files["storage_file"].exists
             /\ json_load_raises(files["storage_file"].text)
          => /\ seen_articles = new_storage(fromisoformat(seen_articles.created_at))
             /\ \A url \in Urls : ENABLED MarkSeen(url, None))
    /\ [](files["storage_file"].exists /\ json_load_raises(files["storage_file"].text)
             /\ ledger_pc \in {"open_temp", "write", "rename"}
          => /\ Cardinality(DOMAIN seen_articles.articles) = 1
             /\ ENABLED (SaveOpenTemp \/ SaveWrite \/ SaveClose \/ SaveRename))
    /\ [][(SaveRename /\ json_load_raises(files["storage_file"].text))
          => /\ ~json_load_raises(files'["storage_file"].text)
             /\ json_load(files'["storage_file"].text) = seen_articles
             /\ \A u \in DOMAIN seen_articles.articles :
                   /\ seen_articles.articles[u].seen_count = 1
                   /\ fromisoformat(seen_articles.articles[u].first_seen)
                         >= fromisoformat(seen_articles.created_at)]_vars

\* C29 witness: the store was cut off and cannot be parsed; the process
\* started empty at time 1, has marked u2 and is about to rename the
\* snapshot holding only u2 over the unreadable store.
C29_Witness ==
    /\ ledger_pc = "rename"
    /\ faults = 0
    /\ files["storage_file"] \in UnreadableStores
    /\ files["storage_file"].text # <<>>
    /\ seen_articles.created_at = isoformat(1)
    /\ DOMAIN seen_articles.articles = {"u2"}
    /\ files["temp_file"].text = json_dump(seen_articles)

-----------------------------------------------------------------------------
(* Properties of the configuration (SpecConfig)                            *)

\* the value of WEBSITES in the environment names no site: it is set, and
\* nothing but blanks stands between its commas
names_no_site(text) ==
    /\ text # <<>>
    /\ \A i \in 1..Len(text) : text[i] \in {" ", ","}

\* C21: when the configuration yields an empty list of websites the run
\* ends with the fatal error (exit status 1) and has fetched no source; the
\* inputs that yield the empty list are those in which WEBSITES is set and
\* names no site, and for each of them the run ends so.
C21_NoSourceIsFatal ==
    /\ [][(RunConfig /\ WEBSITES' = <<>>)
          => (run_pc' = "dead" /\ sched_pc' = "exited" /\ exit_code' = 1)]_vars
    /\ [][(RunConfig /\ WEBSITES' # <<>>) => run_pc' = "components"]_vars
    /\ []((run_pc \notin {"idle", "config"} /\ WEBSITES = <<>>)
          => (run_pc = "dead" /\ exit_code = 1 /\ fetched = <<>>))
    /\ [](run_pc \notin {"idle", "config"} => (WEBSITES = <<>> <=> names_no_site(websites_str)))
    /\ [](run_pc = "config" => ENABLED RunConfig)

\* C21 witness: WEBSITES=" , " yields no site: the run has ended with the
\* fatal error before any fetch.
C21_Witness ==
    /\ websites_str = <<" ", ",", " ">>
    /\ run_pc = "dead"
    /\ exit_code = 1
    /\ WEBSITES = <<>>
    /\ fetched = <<>>

-----------------------------------------------------------------------------
(* Properties of concurrent workers (SpecWorkers)                          *)

\* C26: with the seen-check and the recording of the URL in one atomic step
\* no URL is processed twice, whatever the interleaving of the two workers;
\* without it a URL is processed at most once by each worker, and a worker
\* processes a candidate only when its seen-check found the URL absent.
C26_AtomicCheckAndSetPreventsDuplicates ==
    /\ [](atomic_check_and_set => \A u \in ArticleUrls : classified[u] <= 1)
    /\ [](\A u \in ArticleUrls : classified[u] <= Cardinality(Workers))
    /\ [][\A w \in Workers :
            (worker_pc[w] = "check_seen" /\ worker_pc'[w] = "classify")
            => worker_url(w) \notin DOMAIN db_articles]_vars

\* C26 witness: without the atomic step both workers found a1 unseen, both
\* have classified and saved it.
C26_Witness ==
    /\ ~atomic_check_and_set
    /\ worker_articles = [w \in Workers |-> <<"a1">>]
    /\ worker_pc = [w \in Workers |-> "done"]
    /\ classified["a1"] = 2
    /\ summarized["a1"] = 2
    /\ "a1" \in DOMAIN db_articles

-----------------------------------------------------------------------------
(* Properties of retry_on_failure (SpecRetry)                              *)

\* the calls of func that raised
failed_calls == {k \in 1..Len(retry.outcomes) : retry.outcomes[k].raises}

\* C27: func is called at most max_retries times; the call returns the value
\* of the first call of func that succeeds, and that call is the last one;
\* after the k-th failed attempt (k from 0) it has waited delay * 2^k, but
\* not after the last attempt; when max_retries attempts have all failed
\* the exception of the last one is raised.
C27_BoundedRetryWithBackoff ==
    /\ Len(retry.outcomes) <= retry.max_retries
    /\ 1..(Len(retry.outcomes) - 1) \subseteq failed_calls
    /\ (retry.pc = "returned" /\ retry.outcomes # <<>>)
       => /\ ~retry.outcomes[Len(retry.outcomes)].raises
          /\ retry.result = retry.outcomes[Len(retry.outcomes)].value
    /\ retry.pc = "raised"
       => /\ Len(retry.outcomes) = retry.max_retries
          /\ failed_calls = 1..retry.max_retries
          /\ retry.raised = retry.outcomes[retry.max_retries].value
    /\ retry.pc = "loop" => failed_calls = 1..Len(retry.outcomes)
    /\ LET slept_after == IF retry.pc = "loop" THEN Len(retry.outcomes)
                          ELSE Len(retry.outcomes) - 1
       IN  /\ Len(retry.waits) = IF slept_after < 0 THEN 0 ELSE slept_after
           /\ \A k \in 0..(Len(retry.waits) - 1) :
                 /\ retry.waits[k + 1] = retry.delay * 2^k
                 /\ k < retry.max_retries - 1

\* C27 witness: max_retries = 3 and delay = 3; func raised three times; the
\* call has waited 3 and 6 and raised the exception of the third attempt.
C27_Witness ==
    /\ retry.pc = "raised"
    /\ retry.max_retries = 3
    /\ retry.delay = 3
    /\ retry.waits = <<3, 6>>
    /\ retry.outcomes = <<[raises |-> TRUE, value |-> "first"], [raises |-> TRUE, value |-> "first"],
                          [raises |-> TRUE, value |-> "second"]>>
    /\ retry.raised = "second"

-----------------------------------------------------------------------------
(* Properties of a run, part two (SpecPipeline)                            *)

\* C28: an exception that reaches main()'s handler while a candidate is
\* checked, classified, summarized or stored ends the source for the run:
\* the step stores and classifies nothing and the loop goes to the next
\* source, no candidate of a source that raised is classified or stored
\* afterwards in the run, and a candidate that is not in the table when a
\* run checks it is processed.
C28_ExceptionEndsTheSource ==
    /\ [][RunArticleRaises
          => /\ run_pc' = "next_source"
             /\ site_idx' = site_idx + 1
             /\ site_idx \in raised_at'
             /\ db_articles' = db_articles
             /\ classified' = classified
             /\ summarized' = summarized]_vars
    /\ [][(RunClassify \/ RunSummarize \/ RunSave) => site_idx \notin raised_at]_vars
    /\ [](run_in_progress => \A i \in raised_at : i < site_idx)
    /\ [][(RunCheckSeen /\ run_faults' = run_faults /\ articles[art_idx] \notin DOMAIN db_articles)
          => run_pc' = "classify"]_vars

\* C28 witness: the first source showed a1 and a2; a1 was classified and an
\* exception was raised before it was stored; the run is at the second
\* source, a2 was not classified and neither URL is in the table.
C28_Witness ==
    /\ run_pc = "next_source"
    /\ runs = 1
    /\ raised_at = {1}
    /\ site_idx = 2
    /\ articles = <<"a1", "a2">>
    /\ art_idx = 1
    /\ classified["a1"] = 1
    /\ classified["a2"] = 0
    /\ db_articles = <<>>

\* C30: within a run no URL is summarized, and put on the list handed to
\* the publisher, more than once.
C30_SummarizedOncePerRun ==
    \A u \in ArticleUrls :
        Cardinality({i \in DOMAIN new_articles : new_articles[i].url = u}) <= 1

=============================================================================
